---- MODULE Spec2Model ----
(***************************************************************************)
(* The phased harvesting engine of automate_vitals.py: the batch loop of   *)
(* open_firebase_console, the navigation sequence of collect_app_data, and *)
(* the response handler handle_response with its suspension points.        *)
(*                                                                         *)
(* Encoding of values.  Dates are day offsets from datetime.now().date()   *)
(* (0 is today, -1 yesterday).  Ratios are integers in units of 1e-5, so   *)
(* 0.97 is 97000; a crash-free rate is kept in hundredths of a percent, so *)
(* 97.0 is 9700.  Launch times are microseconds in the payload and         *)
(* hundredths of a second in the result.                                   *)
(***************************************************************************)
EXTENDS Integers, Sequences, FiniteSets, Bags, TLC

\* ------------------------------------------------------------------ bounds
\* The batch is explored through the first MaxApps apps of the registry.
MaxApps == 2
\* Responses whose handler passes a guard beyond those that set the flag of
\* a wait without deadline: in one collect_app_data call explored on its
\* own, in such a call with the ignored responses logged, in one run of the
\* batch, and in a call whose sequencer is scheduled fairly.
MaxExtra == 2
MaxProbeExtra == 1
MaxBatchExtra == 1
MaxLiveExtra == 1
MaxDrawnExtra == 1
\* Handlers suspended in a body read at the same time.
MaxInFlight == 2
\* During a deadline-bounded wait, responses are observed and body reads
\* return within its first EventPolls or its last EventPolls sleeps, and the
\* polls in between run back to back; during every other await responses
\* and body reads may come at any time.
EventPolls == 1
\* Rows of a drawn issue-list or clusters payload.
MaxRows == 4
\* Projections of a drawn timelines payload.
MaxProjections == 2
\* Rows of a drawn metrics report.
MaxReportRows == 3
\* Response entries of a drawn analytics payload.
MaxEntries == 4

\* --------------------------------------------------------------- constants
timeout_seconds == 120

\* Python's None where the field is a number, and a key missing from a dict.
None == -1
Absent == -2
\* Python's None where the field is a string.
NoneStr == "None"

\* ---------------------------------------------------------------- registry
AppKeys == <<"partner", "customer", "vendor", "owner">>

APPS_CONFIG ==
  [partner  |-> [has_ios |-> FALSE, has_p90_launch_time |-> TRUE,  play_console_app_id |-> "4972278085731896191"],
   customer |-> [has_ios |-> TRUE,  has_p90_launch_time |-> TRUE,  play_console_app_id |-> "4975635893417729870"],
   vendor   |-> [has_ios |-> FALSE, has_p90_launch_time |-> TRUE,  play_console_app_id |-> "4975591217808574162"],
   owner    |-> [has_ios |-> TRUE,  has_p90_launch_time |-> FALSE, play_console_app_id |-> "4974844181868761677"]]

NumApps == Len(AppKeys)

\* The URLs _build_urls returns: the page each one opens, its app and its
\* time token.  An optional URL that is not built is NoUrl.
NoUrl == [page |-> "none", app |-> "none", time |-> "none"]

firebase_time(report_days) == IF report_days = 7 THEN "last-seven-days" ELSE "last-thirty-days"
ga_date_option(report_days) == IF report_days = 7 THEN "last7Days" ELSE "last28Days"
pc_days(report_days) == IF report_days = 7 THEN "7" ELSE "30"
perf_time(report_days) == IF report_days = 7 THEN "7d" ELSE "30d"

build_urls(report_days, app_key) ==
  LET cfg == APPS_CONFIG[app_key]
      U(p, t) == [page |-> p, app |-> app_key, time |-> t]
  IN [firebase_url |-> U("issues_all", firebase_time(report_days)),
      top_crashes_url |-> U("issues_crash", firebase_time(report_days)),
      top_non_fatals_url |-> U("issues_error", firebase_time(report_days)),
      top_anrs_url |-> U("issues_anr", firebase_time(report_days)),
      play_console_anr_url |-> U("play_console_anr", pc_days(report_days)),
      android_p90_launch_url |->
        IF cfg.has_p90_launch_time THEN U("perf_trends", perf_time(report_days)) ELSE NoUrl,
      ios_crashes_url |->
        IF cfg.has_ios THEN U("ios_issues_crash", firebase_time(report_days)) ELSE NoUrl,
      ios_non_fatals_url |->
        IF cfg.has_ios THEN U("ios_issues_error", firebase_time(report_days)) ELSE NoUrl,
      ios_dominant_release_url |->
        IF cfg.has_ios THEN U("ios_dominant_release", ga_date_option(report_days)) ELSE NoUrl,
      android_dominant_release_url |-> U("android_dominant_release", ga_date_option(report_days))]

\* ------------------------------------------------------------ closure state
\* The app_data dict built at the start of collect_app_data.
NewAppData(app_key) ==
  [app_key |-> app_key,
   android |-> [crash_free_rates |-> [fatal |-> Absent, non_fatal |-> Absent],
                total_installs |-> [fatal |-> Absent, non_fatal |-> Absent],
                top_crashes |-> << >>,
                top_non_fatals |-> << >>,
                all_anrs |-> << >>,
                up_anrs |-> << >>,
                p90_launch_time_seconds |-> None,
                dominant_release |-> NoneStr],
   ios |-> [crash_free_rates |-> [fatal |-> Absent, non_fatal |-> Absent],
            total_installs |-> [fatal |-> Absent, non_fatal |-> Absent],
            top_crashes |-> << >>,
            top_non_fatals |-> << >>,
            dominant_release |-> NoneStr],
   google_play_vitals |-> NoneStr]

\* The variables handle_response closes over, as collect_app_data sets them
\* before it registers the handler.
NewClosure(app_key) ==
  [current_phase |-> "metrics",
   metrics_captured |-> FALSE,
   fatal_installs |-> 0,
   non_fatal_installs |-> 0,
   anr_installs |-> 0,
   ios_fatal_installs |-> 0,
   ios_non_fatal_installs |-> 0,
   crashes_captured |-> FALSE,
   non_fatals_captured |-> FALSE,
   anr_metrics_captured |-> FALSE,
   ios_metrics_captured |-> FALSE,
   ios_crashes_captured |-> FALSE,
   ios_non_fatals_captured |-> FALSE,
   play_console_anrs_captured |-> FALSE,
   ios_dominant_release_captured |-> FALSE,
   android_dominant_release_captured |-> FALSE,
   android_p90_launch_captured |-> FALSE,
   ios_nonfatal_issues_processed |-> FALSE,
   app_data |-> NewAppData(app_key)]

\* ------------------------------------------------------------- conversions
\* round(x, 2) of a value given in thousandths of the unit the result keeps
\* in hundredths: n / d to the nearest integer, ties to the even one.
RoundHalfEven(n, d) ==
  LET q == n \div d
      r == n % d
  IN IF 2 * r < d THEN q
     ELSE IF 2 * r > d THEN q + 1
     ELSE IF q % 2 = 0 THEN q ELSE q + 1

\* A conversion that cuts the third decimal off instead of rounding.
RatePercentCut(ratio) == ratio \div 10

\* round(ratio * 100, 2): a ratio in units of 1e-5 to hundredths of a percent.
RatePercent(ratio) == RoundHalfEven(ratio, 10)

\* round(p90_microseconds / 1000000, 2), in hundredths of a second.
P90Seconds(microseconds) == RoundHalfEven(microseconds, 10000)

\* The whole percentages q up to 300 for which the double nearest to q / 100,
\* times 100, is a double just below q, so that int() gives q - 1.
ShortPercents ==
  {29, 57, 58, 113, 114, 115, 116, 201, 203, 205, 207, 226, 228, 230, 232, 251, 253, 255}

\* int(devices / total_installs * 100) if total_installs > 0 else 0, in
\* double arithmetic: the division and the product are each rounded to the
\* nearest double, which only matters when the exact result is whole.
ImpactPercent(devices, total_installs) ==
  IF total_installs > 0
  THEN LET q == (devices * 100) \div total_installs
       IN IF (devices * 100) % total_installs = 0 /\ q \in ShortPercents THEN q - 1 ELSE q
  ELSE 0

\* is_valid_date_range: both times parse, the end is today and the start is
\* DATE_RANGE_DAYS - 1 days before today; any parse error gives False.
is_valid_date_range(start_time, end_time, date_range_days) ==
  /\ start_time.ok
  /\ end_time.ok
  /\ end_time.day = 0
  /\ start_time.day = 0 - (date_range_days - 1)

\* The date-range test every metrics-report branch applies: the window of
\* the first interval of the first group, and of no other row.
ReportWindowValid(rows, date_range_days) ==
  /\ Len(rows) > 0
  /\ rows[1].intervalMetrics
  /\ is_valid_date_range(rows[1].startTime, rows[1].endTime, date_range_days)

\* A descending sort that puts an element before the earlier ones of the
\* same key.
RECURSIVE SortDescTiesReversed(_)
SortDescTiesReversed(s) ==
  IF Len(s) = 0 THEN << >>
  ELSE LET front == SortDescTiesReversed(SubSeq(s, 1, Len(s) - 1))
           x == s[Len(s)]
           n == Cardinality({i \in 1..Len(front) : front[i].k > x.k})
       IN SubSeq(front, 1, n) \o <<x>> \o SubSeq(front, n + 1, Len(front))

\* sorted(..., key, reverse=True): a stable sort, descending by .k.
RECURSIVE StableSortDesc(_)
StableSortDesc(s) ==
  IF Len(s) = 0 THEN << >>
  ELSE LET front == StableSortDesc(SubSeq(s, 1, Len(s) - 1))
           x == s[Len(s)]
           n == Cardinality({i \in 1..Len(front) : front[i].k >= x.k})
       IN SubSeq(front, 1, n) \o <<x>> \o SubSeq(front, n + 1, Len(front))

Top3(s) == SubSeq(s, 1, IF Len(s) < 3 THEN Len(s) ELSE 3)

\* ------------------------------------------------------------ issue lists
\* A grouping loop in which a later row of a group replaces the counts of
\* the earlier ones.
RECURSIVE GroupIssuesLastWins(_, _, _)
GroupIssuesLastWins(rows, phase, grouped) ==
  IF Len(rows) = 0 THEN grouped
  ELSE
    LET issue == Head(rows)
        hit == {i \in 1..Len(grouped) : grouped[i].key = issue.subtitle}
        entry == [key |-> issue.subtitle, title |-> issue.title,
                  impactedDevicesCount |-> issue.impactedDevicesCount,
                  eventsCount |-> issue.eventsCount]
        next == IF hit # {}
                THEN [i \in 1..Len(grouped) |-> IF i \in hit THEN entry ELSE grouped[i]]
                ELSE Append(grouped, entry)
    IN GroupIssuesLastWins(Tail(rows), phase, next)

\* The grouping loop over topIssues, under the phase read after the body
\* read: iOS phases keep every row as its own entry, the anrs phase groups
\* by title, every other phase groups by subtitle and shows the title when
\* the subtitle is "Unknown".
RECURSIVE GroupIssues(_, _, _)
GroupIssues(rows, phase, grouped) ==
  IF Len(rows) = 0 THEN grouped
  ELSE
    LET issue == Head(rows)
        ios == phase \in {"ios_metrics", "ios_crashes", "ios_non_fatals", "ios_dominant_release"}
        group_key == IF phase = "anrs" \/ ios THEN issue.title ELSE issue.subtitle
        display_title ==
          IF phase = "anrs" \/ ios THEN issue.title
          ELSE IF issue.subtitle # "Unknown" THEN issue.subtitle ELSE issue.title
        display_name == IF phase = "ios_non_fatals" THEN issue.subtitle ELSE issue.title
        hit == {i \in 1..Len(grouped) : grouped[i].key = group_key}
        next ==
          IF ios
          THEN Append(grouped, [key |-> "", title |-> display_name,
                                impactedDevicesCount |-> issue.impactedDevicesCount,
                                eventsCount |-> issue.eventsCount])
          ELSE IF hit # {}
          THEN [i \in 1..Len(grouped) |->
                  IF i \in hit
                  THEN [grouped[i] EXCEPT
                          !.impactedDevicesCount = @ + issue.impactedDevicesCount,
                          !.eventsCount = @ + issue.eventsCount]
                  ELSE grouped[i]]
          ELSE Append(grouped, [key |-> group_key, title |-> display_title,
                                impactedDevicesCount |-> issue.impactedDevicesCount,
                                eventsCount |-> issue.eventsCount])
    IN GroupIssues(Tail(rows), phase, next)

\* sorted(grouped_issues.values(), key=impactedDevicesCount, reverse=True)[:3]
SortedIssues(rows, phase) ==
  LET grouped == GroupIssues(rows, phase, << >>)
      keyed == [i \in 1..Len(grouped) |-> [k |-> grouped[i].impactedDevicesCount, v |-> grouped[i]]]
  IN Top3(StableSortDesc(keyed))

\* The issue_data dicts of one payload, ranked 1..n.
IssueData(rows, phase, total_installs) ==
  LET sorted_issues == SortedIssues(rows, phase)
  IN [i \in 1..Len(sorted_issues) |->
        [rank |-> i,
         name |-> sorted_issues[i].v.title,
         impact_percentage |-> ImpactPercent(sorted_issues[i].v.impactedDevicesCount, total_installs),
         impacted_devices |-> sorted_issues[i].v.impactedDevicesCount,
         events |-> sorted_issues[i].v.eventsCount]]

\* --------------------------------------------------------- metrics reports
\* The row loop of the Android metrics branch.  acc holds the closure and the
\* two local rates; a row whose install count does not parse raises inside
\* the loop, after the rate of that row was computed.
RECURSIVE AndroidMetricsLoop(_, _)
AndroidMetricsLoop(rows, acc) ==
  IF Len(rows) = 0 \/ acc.raised THEN acc
  ELSE
    LET metric == Head(rows)
        next ==
          IF metric.fatality = "NON_FATAL" /\ metric.intervalMetrics
          THEN IF metric.installs_ok
               THEN [acc EXCEPT !.non_fatal_rate = RatePercent(metric.ratio),
                                !.c.non_fatal_installs = metric.installs]
               ELSE [acc EXCEPT !.non_fatal_rate = RatePercent(metric.ratio), !.raised = TRUE]
          ELSE IF metric.fatality = "FATAL" /\ metric.intervalMetrics
          THEN IF metric.installs_ok
               THEN [acc EXCEPT !.fatal_rate = RatePercent(metric.ratio),
                                !.c.fatal_installs = metric.installs]
               ELSE [acc EXCEPT !.fatal_rate = RatePercent(metric.ratio), !.raised = TRUE]
          ELSE acc
    IN AndroidMetricsLoop(Tail(rows), next)

\* The Android metrics branch after the body was read.
ExtractAndroidMetrics(c, r, date_range_days) ==
  IF ~r.json_ok \/ ~ReportWindowValid(r.rows, date_range_days) THEN c
  ELSE
    LET acc == AndroidMetricsLoop(r.rows,
                 [c |-> c, fatal_rate |-> None, non_fatal_rate |-> None, raised |-> FALSE])
    IN IF acc.raised THEN acc.c
       ELSE [acc.c EXCEPT
               !.app_data.android.crash_free_rates =
                  [fatal |-> acc.fatal_rate, non_fatal |-> acc.non_fatal_rate],
               !.app_data.android.total_installs =
                  [fatal |-> acc.c.fatal_installs, non_fatal |-> acc.c.non_fatal_installs],
               !.metrics_captured = TRUE]

\* The ANR metrics branch: the first ANR row with an interval sets
\* anr_installs and the flag, and ends the loop.
RECURSIVE AnrMetricsLoop(_, _)
AnrMetricsLoop(rows, c) ==
  IF Len(rows) = 0 THEN c
  ELSE
    LET metric == Head(rows)
    IN IF metric.fatality = "ANR" /\ metric.intervalMetrics
       THEN IF metric.installs_ok
            THEN [c EXCEPT !.anr_installs = metric.installs, !.anr_metrics_captured = TRUE]
            ELSE c
       ELSE AnrMetricsLoop(Tail(rows), c)

ExtractAnrMetrics(c, r, date_range_days) ==
  IF ~r.json_ok \/ ~ReportWindowValid(r.rows, date_range_days) THEN c
  ELSE AnrMetricsLoop(r.rows, c)

\* A row loop of the iOS metrics branch that stores a rate and its install
\* count whether or not the key is already present.
RECURSIVE IosMetricsLoopRewrites(_, _)
IosMetricsLoopRewrites(rows, acc) ==
  IF Len(rows) = 0 \/ acc.raised THEN acc
  ELSE
    LET metric == Head(rows)
        c == acc.c
        next ==
          IF metric.fatality = "FATAL" /\ metric.intervalMetrics
          THEN IF ~metric.installs_ok THEN [acc EXCEPT !.raised = TRUE]
               ELSE IF c.current_phase \in {"ios_crashes", "ios_metrics"}
               THEN [acc EXCEPT
                       !.c.ios_fatal_installs = metric.installs,
                       !.c.app_data.ios.crash_free_rates.fatal = RatePercent(metric.ratio),
                       !.c.app_data.ios.total_installs.fatal = metric.installs]
               ELSE [acc EXCEPT !.c.ios_fatal_installs = metric.installs]
          ELSE IF metric.fatality = "NON_FATAL" /\ metric.intervalMetrics
          THEN IF ~metric.installs_ok THEN [acc EXCEPT !.raised = TRUE]
               ELSE IF c.current_phase \in {"ios_non_fatals", "ios_metrics"}
               THEN [acc EXCEPT
                       !.c.ios_non_fatal_installs = metric.installs,
                       !.c.app_data.ios.crash_free_rates.non_fatal = RatePercent(metric.ratio),
                       !.c.app_data.ios.total_installs.non_fatal = metric.installs]
               ELSE [acc EXCEPT !.c.ios_non_fatal_installs = metric.installs]
          ELSE acc
    IN IosMetricsLoopRewrites(Tail(rows), next)

\* The row loop of the iOS metrics branch, under the phase read after the
\* body read.
RECURSIVE IosMetricsLoop(_, _)
IosMetricsLoop(rows, acc) ==
  IF Len(rows) = 0 \/ acc.raised THEN acc
  ELSE
    LET metric == Head(rows)
        c == acc.c
        rates == c.app_data.ios.crash_free_rates
        next ==
          IF metric.fatality = "FATAL" /\ metric.intervalMetrics
          THEN IF ~metric.installs_ok THEN [acc EXCEPT !.raised = TRUE]
               ELSE IF c.current_phase \in {"ios_crashes", "ios_metrics"} /\ rates.fatal = Absent
               THEN [acc EXCEPT
                       !.c.ios_fatal_installs = metric.installs,
                       !.c.app_data.ios.crash_free_rates.fatal = RatePercent(metric.ratio),
                       !.c.app_data.ios.total_installs.fatal = metric.installs]
               ELSE [acc EXCEPT !.c.ios_fatal_installs = metric.installs]
          ELSE IF metric.fatality = "NON_FATAL" /\ metric.intervalMetrics
          THEN IF ~metric.installs_ok THEN [acc EXCEPT !.raised = TRUE]
               ELSE IF c.current_phase \in {"ios_non_fatals", "ios_metrics"} /\ rates.non_fatal = Absent
               THEN [acc EXCEPT
                       !.c.ios_non_fatal_installs = metric.installs,
                       !.c.app_data.ios.crash_free_rates.non_fatal = RatePercent(metric.ratio),
                       !.c.app_data.ios.total_installs.non_fatal = metric.installs]
               ELSE [acc EXCEPT !.c.ios_non_fatal_installs = metric.installs]
          ELSE acc
    IN IosMetricsLoop(Tail(rows), next)

\* The except clause of the iOS metrics branch: the flag is still set when
\* a fatal rate is stored.
IosMetricsExcept(c) ==
  IF c.app_data.ios.crash_free_rates.fatal # Absent
  THEN [c EXCEPT !.ios_metrics_captured = TRUE]
  ELSE c

\* The iOS metrics branch after the body was read.
ExtractIosMetrics(c, r, date_range_days) ==
  IF ~r.json_ok THEN IosMetricsExcept(c)
  ELSE IF ~ReportWindowValid(r.rows, date_range_days) THEN c
  ELSE
    LET acc == IosMetricsLoop(r.rows, [c |-> c, raised |-> FALSE])
    IN IF acc.raised THEN IosMetricsExcept(acc.c)
       ELSE IF acc.c.current_phase \in {"ios_metrics", "ios_non_fatals"}
       THEN [acc.c EXCEPT !.ios_metrics_captured = TRUE]
       ELSE acc.c

\* -------------------------------------------------- Play-console clusters
\* A grouping loop over the clusters that sums users and events but keeps
\* the ratio of the first row of a group.
RECURSIVE GroupAnrsFirstRatio(_, _)
GroupAnrsFirstRatio(rows, grouped) ==
  IF Len(rows) = 0 THEN grouped
  ELSE
    LET anr == Head(rows)
        hit == {i \in 1..Len(grouped) : grouped[i].name = anr.name}
        next ==
          IF hit # {}
          THEN [i \in 1..Len(grouped) |->
                  IF i \in hit
                  THEN [grouped[i] EXCEPT
                          !.affected_users = @ + anr.affected_users,
                          !.event_count = @ + anr.event_count]
                  ELSE grouped[i]]
          ELSE Append(grouped, [name |-> anr.name,
                                affected_users |-> anr.affected_users,
                                event_count |-> anr.event_count,
                                impact_percentage |-> anr.ratio])
    IN GroupAnrsFirstRatio(Tail(rows), next)

\* The grouping loop over the clusters: one group per name, in first-seen
\* order, summing users, events and the vendor's ratio (as a percentage, in
\* thousandths of a percent).
RECURSIVE GroupAnrs(_, _)
GroupAnrs(rows, grouped) ==
  IF Len(rows) = 0 THEN grouped
  ELSE
    LET anr == Head(rows)
        hit == {i \in 1..Len(grouped) : grouped[i].name = anr.name}
        next ==
          IF hit # {}
          THEN [i \in 1..Len(grouped) |->
                  IF i \in hit
                  THEN [grouped[i] EXCEPT
                          !.affected_users = @ + anr.affected_users,
                          !.event_count = @ + anr.event_count,
                          !.impact_percentage = @ + anr.ratio]
                  ELSE grouped[i]]
          ELSE Append(grouped, [name |-> anr.name,
                                affected_users |-> anr.affected_users,
                                event_count |-> anr.event_count,
                                impact_percentage |-> anr.ratio])
    IN GroupAnrs(Tail(rows), next)

\* anr_list: the top 3 groups by summed impact, the impact rounded to 2
\* decimals (hundredths of a percent).
AnrList(rows) ==
  LET grouped == GroupAnrs(rows, << >>)
      keyed == [i \in 1..Len(grouped) |-> [k |-> grouped[i].impact_percentage, v |-> grouped[i]]]
      sorted_anrs == Top3(StableSortDesc(keyed))
  IN [i \in 1..Len(sorted_anrs) |->
        [name |-> sorted_anrs[i].v.name,
         impact_percentage |-> RoundHalfEven(sorted_anrs[i].v.impact_percentage, 10),
         affected_users |-> sorted_anrs[i].v.affected_users,
         events |-> sorted_anrs[i].v.event_count]]

\* The Play-console branch after the body was read: up_anrs is assigned,
\* not appended to.
ExtractPlayConsoleAnrs(c, r) ==
  IF ~r.json_ok THEN c
  ELSE [c EXCEPT !.app_data.android.up_anrs = AnrList(r.rows),
                 !.play_console_anrs_captured = TRUE]

\* ------------------------------------------------------- dominant release
\* version_data['value'] for the {value: string} wrapper, str(version_data)
\* for a bare string.
DominantVersion(version_data) ==
  IF version_data.wrapped THEN version_data.value ELSE version_data.bare

\* A body text left as it was read, guard and all.
KeepGuard(r) == r

\* The text of a body without the guard ")]}'," some bodies begin with.
StripGuard(r) == IF r.guard THEN [r EXCEPT !.guard = FALSE] ELSE r

\* The dominant-release branch after the body was read: the guard is
\* stripped and the rest parsed (a text that still begins with the guard
\* is no JSON); the platform is chosen by the phase read at that moment.
ExtractDominantRelease(c, r0) ==
  LET r == StripGuard(r0)
  IN
  IF r.guard \/ ~r.json_ok THEN c
  ELSE IF Len(r.rows) >= 3 /\ Len(r.rows[3].responseRows) > 0
          /\ Len(r.rows[3].responseRows[1].dimensionCompoundValues) > 0
  THEN LET dominant_version ==
             DominantVersion(r.rows[3].responseRows[1].dimensionCompoundValues[1])
       IN IF c.current_phase = "ios_dominant_release"
          THEN [c EXCEPT !.ios_dominant_release_captured = TRUE,
                         !.app_data.ios.dominant_release = dominant_version]
          ELSE [c EXCEPT !.android_dominant_release_captured = TRUE,
                         !.app_data.android.dominant_release = dominant_version]
  ELSE c

\* ------------------------------------------------------------ launch time
\* A search that takes the first projection whose start date parses,
\* whatever the date.
TargetProjectionAnyDay(projections) ==
  LET hits == {i \in 1..Len(projections) : projections[i].startTime.ok}
  IN IF hits = {} THEN 0 ELSE CHOOSE i \in hits : \A j \in hits : i <= j

\* The first projection, in payload order, whose start date parses and is
\* today or yesterday; 0 when there is none.
TargetProjection(projections) ==
  LET hits == {i \in 1..Len(projections) :
                 /\ projections[i].startTime.ok
                 /\ projections[i].startTime.day \in {0, 0 - 1}}
  IN IF hits = {} THEN 0 ELSE CHOOSE i \in hits : \A j \in hits : i <= j

\* The launch-time branch after the body was read.
ExtractP90Launch(c, r) ==
  IF ~r.json_ok THEN c
  ELSE LET t == TargetProjection(r.rows)
       IN IF t # 0 /\ r.rows[t].quantiles >= 19
          THEN [c EXCEPT !.app_data.android.p90_launch_time_seconds = P90Seconds(r.rows[t].q18),
                         !.android_p90_launch_captured = TRUE]
          ELSE c

\* ------------------------------------------------------------- top issues
\* The top-issues branch after the body was read.  total_installs was bound
\* before the body read; the list the entries are appended to and the flag
\* that is set follow the phase read after it.
ExtractTopIssues(c, r, total_installs) ==
  IF ~r.json_ok THEN c
  ELSE
    LET phase == c.current_phase
        data == IssueData(r.rows, phase, total_installs)
    IN CASE phase = "crashes" ->
              [c EXCEPT !.app_data.android.top_crashes = @ \o data, !.crashes_captured = TRUE]
         [] phase = "non_fatals" ->
              [c EXCEPT !.app_data.android.top_non_fatals = @ \o data, !.non_fatals_captured = TRUE]
         [] phase = "anrs" ->
              [c EXCEPT !.app_data.android.all_anrs = @ \o data]
         [] phase = "ios_crashes" ->
              [c EXCEPT !.app_data.ios.top_crashes = @ \o data, !.ios_crashes_captured = TRUE]
         [] phase = "ios_non_fatals" ->
              [c EXCEPT !.app_data.ios.top_non_fatals = @ \o data, !.ios_non_fatals_captured = TRUE]
         [] OTHER -> c

\* ---------------------------------------------------------------- state
VARIABLES
  report_days,      \* the argument of open_firebase_console
  DATE_RANGE_DAYS,  \* the module-level global is_valid_date_range reads
  harness,          \* "batch": open_firebase_console; "app", "probe", "live": one collect_app_data call
  fallback,         \* GOOGLE_PLAY_AVAILABLE, and whether SERVICE_ACCOUNT_FILE exists
  drawn,            \* the payload this run's "drawn" response carries, if it has one
  browser,          \* the local `browser` of open_firebase_console
  idx,              \* position of the batch loop in APPS_CONFIG (1-based)
  pc,               \* the await the sequencer is suspended in
  elapsed,          \* the poll counter of the deadline-bounded waits
  seen,             \* responses whose handler passed a guard so far
  last,             \* the response observed last, if every handler ignored it and nothing ran since
  cl,               \* app key -> the variables its handle_response closes over
  inflight,         \* bag of handlers suspended in a body read
  page_url,         \* the URL the shared page was last sent to
  apps              \* the keys of all_apps_data["apps"], in insertion order

vars == <<report_days, DATE_RANGE_DAYS, harness, fallback, drawn, browser, idx, pc, elapsed, seen,
          last, cl, inflight, page_url, apps>>

AppKeySet == {AppKeys[i] : i \in 1..NumApps}

\* The app collect_app_data is running for.
cur == AppKeys[idx]

\* ------------------------------------------------------- handle_response
\* A variant of IosPhases that also takes metrics reports in the up_anrs
\* phase.
IosPhasesWide == {"ios_metrics", "ios_crashes", "ios_non_fatals", "up_anrs"}

IosPhases == {"ios_metrics", "ios_crashes", "ios_non_fatals"}

\* A handle_response whose Play-console guard does not look for the app id
\* in the URL.
HandleStartAnyApp(c, app_key, r) ==
  LET phase == c.current_phase
      stay(b) == [c |-> c, branch |-> b, total_installs |-> 0]
      issues(n) == [c |-> c, branch |-> "top_issues", total_installs |-> n]
  IN IF phase = "android_p90_launch" /\ r.kind = "listTimelines" /\ ~r.appVersionValues
     THEN stay("p90_launch")
     ELSE IF phase \in {"ios_dominant_release", "android_dominant_release"}
             /\ r.kind = "venus" /\ r.reportId
     THEN stay("dominant_release")
     ELSE IF phase = "up_anrs" /\ r.kind = "errorClusters"
     THEN IF r.post_markers THEN stay("play_console_anrs") ELSE stay("none")
     ELSE IF ~c.metrics_captured /\ r.kind = "getMetricsReport"
     THEN stay("metrics")
     ELSE IF phase = "anr_metrics" /\ r.kind = "getMetricsReport"
     THEN stay("anr_metrics")
     ELSE IF phase \in IosPhases /\ r.kind = "getMetricsReport"
     THEN stay("ios_metrics")
     ELSE IF r.kind = "listFirebaseTopOpenIssues"
     THEN IF phase = "crashes" /\ ~c.crashes_captured THEN issues(c.fatal_installs)
          ELSE IF phase = "non_fatals" /\ ~c.non_fatals_captured THEN issues(c.non_fatal_installs)
          ELSE IF phase = "anrs" /\ c.anr_metrics_captured THEN issues(c.anr_installs)
          ELSE IF phase = "ios_crashes" /\ c.ios_metrics_captured THEN issues(c.ios_fatal_installs)
          ELSE IF phase = "ios_non_fatals" /\ c.ios_metrics_captured
          THEN issues(c.ios_non_fatal_installs)
          ELSE IF phase = "ios_non_fatals" /\ ~c.ios_metrics_captured
          THEN [c |-> [c EXCEPT !.ios_nonfatal_issues_processed = TRUE],
                branch |-> "none", total_installs |-> 0]
          ELSE stay("none")
     ELSE stay("none")

\* The part of handle_response that runs before its first await, for the
\* closure c of app_key and response r: the branch whose guard the response
\* passes ("none" when it passes none), the closure after that part, and
\* the install count a top-issues branch binds before it reads the body.
HandleStart(c, app_key, r) ==
  LET phase == c.current_phase
      stay(b) == [c |-> c, branch |-> b, total_installs |-> 0]
      issues(n) == [c |-> c, branch |-> "top_issues", total_installs |-> n]
  IN IF phase = "android_p90_launch" /\ r.kind = "listTimelines" /\ ~r.appVersionValues
     THEN stay("p90_launch")
     ELSE IF phase \in {"ios_dominant_release", "android_dominant_release"}
             /\ r.kind = "venus" /\ r.reportId
     THEN stay("dominant_release")
     ELSE IF phase = "up_anrs" /\ r.kind = "errorClusters"
             /\ r.pc_app_id = APPS_CONFIG[app_key].play_console_app_id
     THEN IF r.post_markers THEN stay("play_console_anrs") ELSE stay("none")
     ELSE IF ~c.metrics_captured /\ r.kind = "getMetricsReport"
     THEN stay("metrics")
     ELSE IF phase = "anr_metrics" /\ r.kind = "getMetricsReport"
     THEN stay("anr_metrics")
     ELSE IF phase \in IosPhases /\ r.kind = "getMetricsReport"
     THEN stay("ios_metrics")
     ELSE IF r.kind = "listFirebaseTopOpenIssues"
     THEN IF phase = "crashes" /\ ~c.crashes_captured THEN issues(c.fatal_installs)
          ELSE IF phase = "non_fatals" /\ ~c.non_fatals_captured THEN issues(c.non_fatal_installs)
          ELSE IF phase = "anrs" /\ c.anr_metrics_captured THEN issues(c.anr_installs)
          ELSE IF phase = "ios_crashes" /\ c.ios_metrics_captured THEN issues(c.ios_fatal_installs)
          ELSE IF phase = "ios_non_fatals" /\ c.ios_metrics_captured
          THEN issues(c.ios_non_fatal_installs)
          ELSE IF phase = "ios_non_fatals" /\ ~c.ios_metrics_captured
          THEN [c |-> [c EXCEPT !.ios_nonfatal_issues_processed = TRUE],
                branch |-> "none", total_installs |-> 0]
          ELSE stay("none")
     ELSE stay("none")

\* The part of handle_response that runs once the body read of handler h
\* returns, on the closure c as it is at that moment.
HandleResume(c, h, date_range_days) ==
  CASE h.branch = "p90_launch" -> ExtractP90Launch(c, h.r)
    [] h.branch = "dominant_release" -> ExtractDominantRelease(c, h.r)
    [] h.branch = "play_console_anrs" -> ExtractPlayConsoleAnrs(c, h.r)
    [] h.branch = "metrics" -> ExtractAndroidMetrics(c, h.r, date_range_days)
    [] h.branch = "anr_metrics" -> ExtractAnrMetrics(c, h.r, date_range_days)
    [] h.branch = "ios_metrics" -> ExtractIosMetrics(c, h.r, date_range_days)
    [] h.branch = "top_issues" -> ExtractTopIssues(c, h.r, h.total_installs)

\* ------------------------------------------------- the responses observed
Day(d) == [ok |-> TRUE, day |-> d]

Row(fatality, start_day, end_day, ratio, installs) ==
  [fatality |-> fatality, intervalMetrics |-> TRUE,
   startTime |-> Day(start_day), endTime |-> Day(end_day),
   ratio |-> ratio, installs |-> installs, installs_ok |-> TRUE]

Response(kind, rows) ==
  [kind |-> kind, pc_app_id |-> "", reportId |-> FALSE, appVersionValues |-> FALSE,
   post_markers |-> FALSE, guard |-> FALSE, json_ok |-> TRUE, rows |-> rows]

\* A metrics report for the trailing window of `days` days ending `lag`
\* days ago; lag 0 is the window the console was asked for.
MetricsReport(days, lag) ==
  Response("getMetricsReport",
    <<Row("FATAL", 0 - (days - 1) - lag, 0 - lag, 97000, 1000),
      Row("NON_FATAL", 0 - (days - 1) - lag, 0 - lag, 95000, 1000),
      Row("ANR", 0 - (days - 1) - lag, 0 - lag, 99000, 500)>>)

\* A metrics report whose first row carries the requested window and whose
\* FATAL row carries yesterday's.
MixedReport(days) ==
  Response("getMetricsReport",
    <<Row("ANR", 0 - (days - 1), 0, 99000, 500),
      Row("FATAL", 0 - days, 0 - 1, 90000, 900),
      Row("NON_FATAL", 0 - (days - 1), 0, 95000, 1000)>>)

Issue(title, subtitle, devices, events) ==
  [title |-> title, subtitle |-> subtitle,
   impactedDevicesCount |-> devices, eventsCount |-> events]

TopIssues ==
  Response("listFirebaseTopOpenIssues",
    <<Issue("Parser.kt", "NullPointerException", 10, 50),
      Issue("Main.kt", "IllegalStateException", 12, 30),
      Issue("Loader.kt", "NullPointerException", 5, 20),
      Issue("Cache.kt", "Unknown", 3, 3),
      Issue("Net.kt", "OutOfMemoryError", 2, 9)>>)

Cluster(name, users, events, ratio) ==
  [name |-> name, affected_users |-> users, event_count |-> events, ratio |-> ratio]

ErrorClusters(app_key, markers) ==
  [Response("errorClusters",
     <<Cluster("Input dispatching timed out", 40, 90, 120),
       Cluster("Broadcast of Intent", 25, 60, 70),
       Cluster("Input dispatching timed out", 10, 15, 30),
       Cluster("executing service", 8, 9, 24),
       Cluster("Context.startForegroundService", 5, 5, 10)>>)
   EXCEPT !.pc_app_id = APPS_CONFIG[app_key].play_console_app_id,
          !.post_markers = markers]

Wrapped(v) == [wrapped |-> TRUE, value |-> v, bare |-> ""]
Bare(v) == [wrapped |-> FALSE, value |-> "", bare |-> v]

Venus(version_data) ==
  [Response("venus",
     <<[responseRows |-> << >>],
       [responseRows |-> << >>],
       [responseRows |-> <<[dimensionCompoundValues |-> <<version_data>>]>>]>>)
   EXCEPT !.reportId = TRUE]

Projection(day, quantiles, q18) ==
  [startTime |-> Day(day), quantiles |-> quantiles, q18 |-> q18]

Timelines(projections) == Response("listTimelines", projections)

\* The payloads of at most n rows of the pool, each row at most once, in
\* the order of the pool or in the opposite order.
Picks(pool, n) ==
  {[p \in 1..Cardinality(S) |->
      pool[CHOOSE i \in S :
             Cardinality({j \in S : j <= i}) = (IF up THEN p ELSE Cardinality(S) + 1 - p)]] :
     S \in {T \in SUBSET (1..Len(pool)) : Cardinality(T) <= n}, up \in BOOLEAN}

\* The rows the drawn issue lists are made of: two share a subtitle, two a
\* title, and the device counts tie with and without grouping.
IssuePool ==
  <<Issue("T1", "X", 10, 50), Issue("T2", "X", 5, 20), Issue("T1", "Y", 10, 7),
    Issue("T3", "Z", 15, 1), Issue("T4", "W", 5, 3)>>

\* The rows the drawn clusters payloads are made of: two share a name, and
\* the summed ratios tie.  No ratio lies half-way between two hundredths of
\* a percent, where round() would go by the error of the double.
ClusterPool ==
  <<Cluster("N1", 40, 90, 120), Cluster("N2", 25, 60, 70), Cluster("N1", 10, 15, 30),
    Cluster("N3", 8, 9, 150), Cluster("N4", 5, 5, 70)>>

\* The payloads a run of the "payloads" harness draws one of.
DrawnPayloads ==
  {[family |-> "issues", rows |-> s] : s \in Picks(IssuePool, MaxRows)}
  \cup {[family |-> "clusters", rows |-> s] : s \in Picks(ClusterPool, MaxRows)}

\* The projections the drawn timelines are made of: dated today, yesterday
\* or the day before, with 18, 19 or 20 quantiles, and one whose startTime
\* does not parse.
ProjectionPool ==
  <<Projection(0, 19, 1234567), Projection(0, 18, 1111111),
    Projection(0 - 1, 20, 2345678), Projection(0 - 1, 18, 2222222),
    Projection(0 - 2, 20, 999999),
    [Projection(0, 20, 3333333) EXCEPT !.startTime.ok = FALSE]>>

\* The timelines payloads a run of the "payloads" harness draws one of.
DrawnTimelines ==
  {[family |-> "timelines", rows |-> s] : s \in Picks(ProjectionPool, MaxProjections)}

\* The rows the drawn metrics reports of a 7-day run are made of: the rows
\* of the three fatalities over the requested window, a second FATAL row,
\* a row over the window that ended yesterday and a row whose install count
\* does not parse.
ReportPool ==
  <<Row("FATAL", 0 - 6, 0, 97000, 1000), Row("NON_FATAL", 0 - 6, 0, 95000, 1000),
    Row("FATAL", 0 - 6, 0, 98766, 900), Row("ANR", 0 - 6, 0, 99000, 500),
    Row("NON_FATAL", 0 - 7, 0 - 1, 90000, 800),
    [Row("FATAL", 0 - 6, 0, 96000, 700) EXCEPT !.installs_ok = FALSE]>>

\* The metrics reports a run of the "payloads" harness draws one of.
DrawnReports ==
  {[family |-> "report", rows |-> s] : s \in Picks(ReportPool, MaxReportRows)}

\* The rows of the drawn issue lists that try the captions: two rows of
\* one subtitle whose devices sum to 29 % of 1000 installs, and two rows
\* whose caption has no subtitle, so that caption.get("subtitle", "Unknown")
\* gives "Unknown".
CaptionPool ==
  <<Issue("Parser.kt", "NullPointerException", 200, 50),
    Issue("Loader.kt", "NullPointerException", 90, 20),
    Issue("Cache.kt", "Unknown", 3, 3), Issue("Net.kt", "Unknown", 2, 9)>>

\* The entries of the drawn analytics payloads: one without rows, one
\* whose row has no dimension value, and one per form of a version.
ReleaseEntries ==
  {[responseRows |-> << >>],
   [responseRows |-> <<[dimensionCompoundValues |-> << >>]>>],
   [responseRows |-> <<[dimensionCompoundValues |-> <<Wrapped("7.0.1"), Bare("6.0.0")>>],
                       [dimensionCompoundValues |-> <<Bare("6.5.0")>>]>>],
   [responseRows |-> <<[dimensionCompoundValues |-> <<Bare("7.0.1")>>]>>]}

\* The analytics payloads a run of the "payloads" harness draws one of:
\* up to MaxEntries entries, the text with or without the leading guard.
DrawnReleases ==
  {[family |-> "venus", guard |-> g, rows |-> [i \in 1..n |-> IF i = n THEN e ELSE fill]] :
     g \in BOOLEAN, n \in 2..MaxEntries, e \in ReleaseEntries,
     fill \in {[responseRows |-> << >>],
               [responseRows |-> <<[dimensionCompoundValues |-> <<Bare("5.0.0")>>]>>]}}

\* No payload is drawn.
NoDrawn == [family |-> "none", rows |-> << >>]

\* The responses are referred to by name; the clusters responses also by
\* the app whose Play-console id their URL carries.
Id(name) == [name |-> name, app |-> ""]

\* The responses of the "payloads" harness: the drawn one, and the fixed
\* ones of the other kinds.
PayloadResponses(i) ==
  {[name |-> "drawn", app |-> AppKeys[i]]}
  \cup (IF drawn.family = "report" THEN {} ELSE {Id("report")})
  \cup (IF drawn.family = "issues" THEN {} ELSE {Id("top_issues")})

\* The responses a run may observe while the app at position i is collected.
\* A run that logs ignored responses also sees the clusters of its own app
\* answered to a request whose body lacks the user-perceived-ANR markers.
Responses(i) ==
  IF harness = "payloads" THEN PayloadResponses(i) ELSE
  {Id("report"), Id("report_lagging"), Id("report_mixed"),
   Id("top_issues"),
   [name |-> "clusters", app |-> AppKeys[i]],
   [name |-> "clusters", app |-> AppKeys[(i % NumApps) + 1]],
   Id("venus_wrapped"), Id("venus_bare"),
   Id("timelines_today"), Id("timelines_yesterday"),
   Id("other")}
  \cup (IF harness = "probe" THEN {[name |-> "clusters_plain", app |-> AppKeys[i]]} ELSE {})

\* The response of that name, in a run with report window `days`.
Body(id, days) ==
  CASE id.name = "report" -> MetricsReport(days, 0)
    [] id.name = "report_lagging" -> MetricsReport(days, 1)
    [] id.name = "report_mixed" -> MixedReport(days)
    [] id.name = "top_issues" -> TopIssues
    [] id.name = "clusters" -> ErrorClusters(id.app, TRUE)
    [] id.name = "clusters_plain" -> ErrorClusters(id.app, FALSE)
    [] id.name = "venus_wrapped" -> Venus(Wrapped("5.2.0"))
    [] id.name = "venus_bare" -> Venus(Bare("5.1.9"))
    [] id.name = "timelines_today" -> Timelines(<<Projection(0, 20, 1234567)>>)
    [] id.name = "timelines_yesterday" ->
         Timelines(<<Projection(0 - 2, 20, 999999), Projection(0 - 1, 20, 2345678)>>)
    [] id.name = "drawn" /\ drawn.family = "issues" ->
         Response("listFirebaseTopOpenIssues", drawn.rows)
    [] id.name = "drawn" /\ drawn.family = "timelines" -> Timelines(drawn.rows)
    [] id.name = "drawn" /\ drawn.family = "report" -> Response("getMetricsReport", drawn.rows)
    [] id.name = "drawn" /\ drawn.family = "venus" ->
         [Response("venus", drawn.rows) EXCEPT !.reportId = TRUE, !.guard = drawn.guard]
    [] id.name = "drawn" /\ drawn.family = "clusters" ->
         [ErrorClusters(id.app, TRUE) EXCEPT !.rows = drawn.rows]
    [] OTHER -> Response("other", << >>)

\* ------------------------------------------------- collect_app_data: flow
\* The code between two awaits of collect_app_data runs without suspension.
\* Each operator below is such a stretch: from the closure c it gives the
\* closure, the await the sequencer stops in and the poll counter there.
At(c, label) == [c |-> c, pc |-> label, elapsed |-> 0]

\* Everything after the last wait: the fallback-API fetch and the return
\* are synchronous.
Finish(c) == At(c, "fetch_vitals")

\* A variant of LoopContinues whose deadline falls one poll early.
LoopContinuesEarly(captured, e) == ~captured /\ e + 1 < timeout_seconds

\* Entering "while not flag and elapsed < timeout_seconds" with elapsed = 0,
\* and "if not flag: flag = True" after it.
LoopContinues(captured, e) == ~captured /\ e < timeout_seconds

\* A variant of EnterP90Launch that does not test has_p90_launch_time.
EnterP90LaunchUngated(c, app_key) ==
  At([c EXCEPT !.current_phase = "android_p90_launch"], "nav_android_p90_launch")

EnterP90Launch(c, app_key) ==
  IF APPS_CONFIG[app_key].has_p90_launch_time
     /\ build_urls(report_days, app_key).android_p90_launch_url # NoUrl
  THEN At([c EXCEPT !.current_phase = "android_p90_launch"], "nav_android_p90_launch")
  ELSE Finish(c)

LeaveP90Launch(c, app_key) ==
  Finish([c EXCEPT !.android_p90_launch_captured = TRUE])

LeaveAndroidDominantRelease(c, app_key) ==
  EnterP90Launch([c EXCEPT !.android_dominant_release_captured = TRUE], app_key)

EnterAndroidDominantRelease(c, app_key) ==
  At([c EXCEPT !.current_phase = "android_dominant_release"], "nav_android_dominant_release")

LeaveIosDominantRelease(c, app_key) ==
  EnterAndroidDominantRelease([c EXCEPT !.ios_dominant_release_captured = TRUE], app_key)

LeaveUpAnrs(c, app_key) ==
  LET c1 == [c EXCEPT !.play_console_anrs_captured = TRUE]
  IN IF APPS_CONFIG[app_key].has_ios
        /\ build_urls(report_days, app_key).ios_dominant_release_url # NoUrl
     THEN At([c1 EXCEPT !.current_phase = "ios_dominant_release"], "nav_ios_dominant_release")
     ELSE EnterAndroidDominantRelease(c1, app_key)

EnterUpAnrs(c, app_key) == At([c EXCEPT !.current_phase = "up_anrs"], "nav_up_anrs")

LeaveIosNonFatals(c, app_key) ==
  EnterUpAnrs([c EXCEPT !.ios_non_fatals_captured = TRUE], app_key)

LeaveIosCrashes(c, app_key) ==
  At([c EXCEPT !.ios_crashes_captured = TRUE, !.current_phase = "ios_non_fatals"],
     "nav_ios_non_fatals")

\* A variant of LeaveIosMetrics that does not force the flag when the wait
\* ran out.
LeaveIosMetricsUnforced(c, app_key) ==
  LET c1 == [c EXCEPT !.current_phase = "ios_crashes"]
  IN IF LoopContinues(c1.ios_crashes_captured, 0)
     THEN At(c1, "wait_ios_crashes")
     ELSE LeaveIosCrashes(c1, app_key)

LeaveIosMetrics(c, app_key) ==
  LET c1 == [c EXCEPT !.ios_metrics_captured = TRUE, !.current_phase = "ios_crashes"]
  IN IF LoopContinues(c1.ios_crashes_captured, 0)
     THEN At(c1, "wait_ios_crashes")
     ELSE LeaveIosCrashes(c1, app_key)

\* A variant of LeaveAnrMetrics that does not test has_ios.
LeaveAnrMetricsUngated(c, app_key) ==
  At([c EXCEPT !.current_phase = "anrs"], "sleep_before_ios")

LeaveAnrMetrics(c, app_key) ==
  LET c1 == [c EXCEPT !.current_phase = "anrs"]
  IN IF APPS_CONFIG[app_key].has_ios /\ build_urls(report_days, app_key).ios_crashes_url # NoUrl
     THEN At(c1, "sleep_before_ios")
     ELSE EnterUpAnrs(c1, app_key)

\* A variant of LeaveNonFatals that goes back to the crashes phase.
LeaveNonFatalsBack(c, app_key) == At([c EXCEPT !.current_phase = "crashes"], "nav_anr_metrics")

LeaveNonFatals(c, app_key) == At([c EXCEPT !.current_phase = "anr_metrics"], "nav_anr_metrics")

LeaveCrashes(c, app_key) == At([c EXCEPT !.current_phase = "non_fatals"], "nav_non_fatals")

\* The waits, by the label of their await: the flag each polls, whether a
\* deadline bounds it, and the stretch of code that follows it.
WaitFlag(c, label) ==
  CASE label = "wait_metrics" -> c.metrics_captured
    [] label = "wait_crashes" -> c.crashes_captured
    [] label = "wait_non_fatals" -> c.non_fatals_captured
    [] label = "wait_anr_metrics" -> c.anr_metrics_captured
    [] label = "wait_ios_metrics" -> c.ios_metrics_captured
    [] label = "wait_ios_crashes" -> c.ios_crashes_captured
    [] label = "wait_ios_non_fatals" -> c.ios_non_fatals_captured
    [] label = "wait_up_anrs" -> c.play_console_anrs_captured
    [] label = "wait_ios_dominant_release" -> c.ios_dominant_release_captured
    [] label = "wait_android_dominant_release" -> c.android_dominant_release_captured
    [] label = "wait_android_p90_launch" -> c.android_p90_launch_captured

UntimedWaits == {"wait_metrics", "wait_crashes", "wait_non_fatals", "wait_anr_metrics"}

TimedWaits ==
  {"wait_ios_metrics", "wait_ios_crashes", "wait_ios_non_fatals", "wait_up_anrs",
   "wait_ios_dominant_release", "wait_android_dominant_release", "wait_android_p90_launch"}

AfterWait(c, app_key, label) ==
  CASE label = "wait_metrics" -> At(c, "sleep_after_metrics")
    [] label = "wait_crashes" -> LeaveCrashes(c, app_key)
    [] label = "wait_non_fatals" -> LeaveNonFatals(c, app_key)
    [] label = "wait_anr_metrics" -> LeaveAnrMetrics(c, app_key)
    [] label = "wait_ios_metrics" -> LeaveIosMetrics(c, app_key)
    [] label = "wait_ios_crashes" -> LeaveIosCrashes(c, app_key)
    [] label = "wait_ios_non_fatals" -> LeaveIosNonFatals(c, app_key)
    [] label = "wait_up_anrs" -> LeaveUpAnrs(c, app_key)
    [] label = "wait_ios_dominant_release" -> LeaveIosDominantRelease(c, app_key)
    [] label = "wait_android_dominant_release" -> LeaveAndroidDominantRelease(c, app_key)
    [] label = "wait_android_p90_launch" -> LeaveP90Launch(c, app_key)

\* The first test of a wait loop, right after the navigation before it
\* returned: the loop is entered (the sequencer sleeps) or skipped.
EnterWait(c, app_key, label) ==
  IF label \in UntimedWaits
  THEN IF ~WaitFlag(c, label) THEN At(c, label) ELSE AfterWait(c, app_key, label)
  ELSE IF LoopContinues(WaitFlag(c, label), 0) THEN At(c, label)
       ELSE AfterWait(c, app_key, label)

\* A variant of TimedPoll that starts the wait over when its deadline passes.
TimedPollRestarts(c, app_key, label, e) ==
  IF ~WaitFlag(c, label) /\ e + 1 < timeout_seconds
  THEN [c |-> c, pc |-> label, elapsed |-> e + 1]
  ELSE IF WaitFlag(c, label) THEN AfterWait(c, app_key, label)
  ELSE At(c, label)

\* One "await asyncio.sleep(1); elapsed += 1" of a deadline-bounded wait
\* and the loop test after it.
TimedPoll(c, app_key, label, e) ==
  IF LoopContinues(WaitFlag(c, label), e + 1)
  THEN [c |-> c, pc |-> label, elapsed |-> e + 1]
  ELSE AfterWait(c, app_key, label)

\* The navigations, by the label of their awaits: the URL the page is sent
\* to and the wait that follows.
NavUrl(urls, label) ==
  CASE label = "goto_firebase" -> urls.firebase_url
    [] label = "goto_crashes" -> urls.top_crashes_url
    [] label = "nav_non_fatals" -> urls.top_non_fatals_url
    [] label = "nav_anr_metrics" -> urls.top_anrs_url
    [] label = "nav_ios_metrics" -> urls.ios_crashes_url
    [] label = "nav_ios_non_fatals" -> urls.ios_non_fatals_url
    [] label = "nav_up_anrs" -> urls.play_console_anr_url
    [] label = "nav_ios_dominant_release" -> urls.ios_dominant_release_url
    [] label = "nav_android_dominant_release" -> urls.android_dominant_release_url
    [] label = "nav_android_p90_launch" -> urls.android_p90_launch_url

NavWait(label) ==
  CASE label = "goto_firebase" -> "wait_metrics"
    [] label = "goto_crashes" -> "wait_crashes"
    [] label = "nav_non_fatals" -> "wait_non_fatals"
    [] label = "nav_anr_metrics" -> "wait_anr_metrics"
    [] label = "nav_ios_metrics" -> "wait_ios_metrics"
    [] label = "nav_ios_non_fatals" -> "wait_ios_non_fatals"
    [] label = "nav_up_anrs" -> "wait_up_anrs"
    [] label = "nav_ios_dominant_release" -> "wait_ios_dominant_release"
    [] label = "nav_android_dominant_release" -> "wait_android_dominant_release"
    [] label = "nav_android_p90_launch" -> "wait_android_p90_launch"

NavLabels ==
  {"goto_firebase", "goto_crashes", "nav_non_fatals", "nav_anr_metrics", "nav_ios_metrics",
   "nav_ios_non_fatals", "nav_up_anrs", "nav_ios_dominant_release",
   "nav_android_dominant_release", "nav_android_p90_launch"}

\* The labels at which the sequencer is suspended in an await, so that the
\* event loop may run handlers.
Suspended ==
  pc \in NavLabels \cup UntimedWaits \cup TimedWaits
         \cup {"sleep_after_metrics", "sleep_before_ios", "pause"}

\* The polls of a deadline-bounded wait during which the page is quiet.
QuietPoll(e) == e >= EventPolls /\ e < timeout_seconds - EventPolls

\* The next n iterations of a deadline-bounded wait, as long as they follow
\* one another with no handler running in between. The run is evaluated in
\* two halves, the result of the first bound before the second reads it.
RECURSIVE Polls(_, _, _, _)
Polls(to, app_key, label, n) ==
  IF n = 1
  THEN IF to.pc = label /\ QuietPoll(to.elapsed)
       THEN TimedPoll(to.c, app_key, label, to.elapsed)
       ELSE to
  ELSE CHOOSE after \in {Polls(half, app_key, label, n - (n \div 2)) :
                           half \in {Polls(to, app_key, label, n \div 2)}} : TRUE

\* The iterations of a deadline-bounded wait that follow one another with
\* no handler running in between: the loop has at most timeout_seconds.
QuietPolls(to, app_key, label) == Polls(to, app_key, label, timeout_seconds)

\* The moments at which the model lets the event loop run a handler.
EventSlot ==
  /\ Suspended
  /\ harness \in {"batch", "session"} => idx <= MaxApps
  /\ pc \in TimedWaits => ~QuietPoll(elapsed)

\* The flags of the waits without deadline that are set, over all closures.
Served == Cardinality({x \in (DOMAIN cl) \X UntimedWaits : WaitFlag(cl[x[1]], x[2])})

\* The wait without deadline the sequencer is in still lacks its response.
Outstanding ==
  LET c == cl[cur]
  IN \/ c.current_phase = "metrics" /\ ~c.metrics_captured
     \/ c.current_phase = "crashes" /\ ~c.crashes_captured
     \/ c.current_phase = "non_fatals" /\ ~c.non_fatals_captured
     \/ c.current_phase = "anr_metrics" /\ ~c.anr_metrics_captured

\* The bound on the responses that pass a guard, in the current state.
Budget ==
  Served + (IF Outstanding THEN 1 ELSE 0)
  + (CASE harness = "batch" -> MaxBatchExtra
        [] harness = "app" -> MaxExtra
        [] harness = "live" -> MaxLiveExtra
        [] harness = "payloads" -> MaxDrawnExtra
        [] harness \in {"session", "vitals"} -> 0
        [] OTHER -> MaxProbeExtra)

\* The navigations that may raise: any of them in a collect_app_data call
\* explored on its own, the first one of each app in the batch.
FailPoints == IF harness \in {"batch", "session"} THEN {"goto_firebase"} ELSE NavLabels

\* No response ignored since a handler or the sequencer last ran.
NoResponse == Id("none")

\* --------------------------------------------------------------- actions
\* The sequencer resumes in state `to`.
Resume(to, url) ==
  /\ cl' = [cl EXCEPT ![cur] = to.c]
  /\ pc' = to.pc
  /\ elapsed' = to.elapsed
  /\ page_url' = url
  /\ last' = NoResponse
  /\ UNCHANGED <<report_days, DATE_RANGE_DAYS, harness, fallback, drawn, browser, idx, seen, inflight, apps>>

\* collect_app_data is called for the app at idx: it builds the closure,
\* registers handle_response on the page and starts the first navigation.
CollectStart ==
  /\ pc = "call"
  /\ idx <= NumApps
  /\ cl' = [a \in DOMAIN cl \cup {cur} |-> IF a = cur THEN NewClosure(cur) ELSE cl[a]]
  /\ pc' = "goto_firebase"
  /\ elapsed' = 0
  /\ last' = NoResponse
  /\ UNCHANGED <<report_days, DATE_RANGE_DAYS, harness, fallback, drawn, browser, idx, seen, inflight,
                 page_url, apps>>

\* The awaits of a navigation return: the page is at its URL and the wait
\* loop that follows makes its first test.
Navigate(label) ==
  /\ pc = label
  /\ harness \in {"batch", "session"} => idx <= MaxApps
  /\ Resume(EnterWait(cl[cur], cur, NavWait(label)),
            NavUrl(build_urls(report_days, cur), label))

\* An await of a navigation raises (page.goto times out): the except
\* clause of collect_app_data returns None.
NavigationFails ==
  /\ pc \in FailPoints
  /\ pc' = "failed"
  /\ last' = NoResponse
  /\ UNCHANGED <<report_days, DATE_RANGE_DAYS, harness, fallback, drawn, browser, idx, elapsed, seen, cl,
                 inflight, page_url, apps>>

\* A poll of a wait without deadline that gives up whatever the flag.
UntimedWaitGivesUp(label) ==
  /\ pc = label
  /\ Resume(AfterWait(cl[cur], cur, label), page_url)

\* A poll of a wait without deadline finds its flag set.
UntimedWait(label) ==
  /\ pc = label
  /\ WaitFlag(cl[cur], label)
  /\ Resume(AfterWait(cl[cur], cur, label), page_url)

\* A poll of a deadline-bounded wait.
TimedWait(label) ==
  /\ pc = label
  /\ Resume(QuietPolls(TimedPoll(cl[cur], cur, label, elapsed), cur, label), page_url)

GotoFirebase == Navigate("goto_firebase")
WaitMetrics == UntimedWait("wait_metrics")

SleepAfterMetrics ==
  /\ pc = "sleep_after_metrics"
  /\ Resume(At([cl[cur] EXCEPT !.current_phase = "crashes"], "goto_crashes"), page_url)

GotoCrashes == Navigate("goto_crashes")
WaitCrashes == UntimedWait("wait_crashes")
NavNonFatals == Navigate("nav_non_fatals")
WaitNonFatals == UntimedWait("wait_non_fatals")
NavAnrMetrics == Navigate("nav_anr_metrics")
WaitAnrMetrics == UntimedWait("wait_anr_metrics")

SleepBeforeIos ==
  /\ pc = "sleep_before_ios"
  /\ Resume(At([cl[cur] EXCEPT !.current_phase = "ios_metrics"], "nav_ios_metrics"), page_url)

NavIosMetrics == Navigate("nav_ios_metrics")
WaitIosMetrics == TimedWait("wait_ios_metrics")
WaitIosCrashes == TimedWait("wait_ios_crashes")
NavIosNonFatals == Navigate("nav_ios_non_fatals")
WaitIosNonFatals == TimedWait("wait_ios_non_fatals")
NavUpAnrs == Navigate("nav_up_anrs")
WaitUpAnrs == TimedWait("wait_up_anrs")
NavIosDominantRelease == Navigate("nav_ios_dominant_release")
WaitIosDominantRelease == TimedWait("wait_ios_dominant_release")
NavAndroidDominantRelease == Navigate("nav_android_dominant_release")
WaitAndroidDominantRelease == TimedWait("wait_android_dominant_release")
NavP90Launch == Navigate("nav_android_p90_launch")
WaitP90Launch == TimedWait("wait_android_p90_launch")

\* get_google_play_vitals: the suffix of the metric names it asks for and
\* the days it looks back, chosen from its report_days argument.
vitals_window(days) ==
  IF days = 7 THEN [suffix |-> "7dUserWeighted", lookback |-> 8]
  ELSE [suffix |-> "28dUserWeighted", lookback |-> 31]

\* The endpoint groups of the reporting API.
Endpoints ==
  {"anrRateMetricSet", "crashRateMetricSet", "slowStartRateMetricSet", "lmkRateMetricSet",
   "excessiveWakeupRateMetricSet", "stuckBackgroundWakelockRateMetricSet"}

\* metrics_list, each metric by its name without the window suffix.
metrics_list ==
  <<"anrRate", "userPerceivedAnrRate", "crashRate", "userPerceivedCrashRate", "slowStartRate",
    "excessiveWakeupRate", "stuckBgWakelockRate", "userPerceivedLmkRate">>

metric_to_endpoint(metric_name) ==
  CASE metric_name \in {"anrRate", "userPerceivedAnrRate"} -> "anrRateMetricSet"
    [] metric_name \in {"crashRate", "userPerceivedCrashRate"} -> "crashRateMetricSet"
    [] metric_name = "slowStartRate" -> "slowStartRateMetricSet"
    [] metric_name = "userPerceivedLmkRate" -> "lmkRateMetricSet"
    [] metric_name = "excessiveWakeupRate" -> "excessiveWakeupRateMetricSet"
    [] metric_name = "stuckBgWakelockRate" -> "stuckBackgroundWakelockRateMetricSet"
    [] OTHER -> ""

\* The decimalValue the API reports for a metric, in millionths.
DecimalValue(metric_name) ==
  CASE metric_name = "anrRate" -> 4712
    [] metric_name = "userPerceivedAnrRate" -> 2108
    [] metric_name = "crashRate" -> 11094
    [] metric_name = "userPerceivedCrashRate" -> 7301
    [] metric_name = "slowStartRate" -> 30417
    [] metric_name = "excessiveWakeupRate" -> 96
    [] metric_name = "stuckBgWakelockRate" -> 13
    [] OTHER -> 829

\* fetch_metrics_for_date for the metrics asked, when the endpoint groups
\* answer as `answers` says: "ok" (200, with rows), "empty" (200, no rows),
\* "status" (not 200), "raise" (the request or its JSON raises).  Only the
\* groups of the metrics asked are queried; a group that raises or does
\* not answer 200 is passed over; the metrics of the rows of all the
\* others are put together.
fetch_metrics_for_date(answers, asked) ==
  LET endpoint_metrics == {metric_to_endpoint(asked[i]) : i \in 1..Len(asked)} \ {""}
      all_results == {e \in endpoint_metrics : answers[e] \in {"ok", "empty"}}
      all_metrics ==
        {[metric |-> asked[i], decimalValue |-> DecimalValue(asked[i])] :
           i \in {k \in 1..Len(asked) :
                    /\ metric_to_endpoint(asked[k]) \in all_results
                    /\ answers[metric_to_endpoint(asked[k])] = "ok"}}
  IN [queried |-> endpoint_metrics, rows |-> all_metrics]

\* parse_metrics_from_response: rate x 100 rounded to 3 decimals, by metric
\* name, in thousandths of a percent.
parse_metrics_from_response(data) ==
  [name \in {m.metric : m \in data.rows} |->
     RoundHalfEven((CHOOSE m \in data.rows : m.metric = name).decimalValue, 10)]

\* The body of get_google_play_vitals once it holds credentials, against
\* an API that answers the probe for the ANR rate with api.probe for the
\* first api.misses days back and with rows after them, and answers the
\* full query as api.full says: the first day back whose probe has rows is
\* taken and all metrics are fetched for it; with no such day inside the
\* look-back the function raises, which its except clause turns to None.
PlayVitals(days, api) ==
  LET lookback == vitals_window(days).lookback
      probe(d) == fetch_metrics_for_date(
                    [e \in Endpoints |-> IF d <= api.misses THEN api.probe ELSE "ok"],
                    <<"anrRate">>)
      found == {d \in 1..(lookback - 1) : probe(d).rows # {}}
  IN IF found = {} THEN [returns |-> NoneStr]
     ELSE LET latest == CHOOSE d \in found : \A o \in found : d <= o
              current_data == fetch_metrics_for_date(api.full, metrics_list)
              current_metrics == parse_metrics_from_response(current_data)
              get(name) == IF name \in DOMAIN current_metrics THEN current_metrics[name] ELSE None
          IN [returns |-> "snapshot",
              queried |-> current_data.queried,
              vitals_data |->
                [date |-> 0 - latest,
                 anr_rate |-> get("anrRate"),
                 user_perceived_anr_rate |-> get("userPerceivedAnrRate"),
                 crash_rate |-> get("crashRate"),
                 user_perceived_crash_rate |-> get("userPerceivedCrashRate"),
                 slow_start_rate |-> get("slowStartRate"),
                 excessive_wakeup_rate |-> get("excessiveWakeupRate"),
                 stuck_wakelock_rate |-> get("stuckBgWakelockRate"),
                 user_perceived_lmk_rate |-> get("userPerceivedLmkRate")]]

\* What get_google_play_vitals may return once it holds credentials: None
\* or a snapshot; in a run with a drawn API, what that API leads to.
VitalsOutcomes ==
  IF drawn.family = "api" THEN {PlayVitals(report_days, drawn).returns}
  ELSE {NoneStr, "snapshot"}

\* get_google_play_vitals without the test for the service-account file.
get_google_play_vitals_unchecked(f) ==
  IF ~f.GOOGLE_PLAY_AVAILABLE THEN {NoneStr}
  ELSE VitalsOutcomes

\* get_google_play_vitals: None when the client libraries are missing or
\* the service-account file does not exist, else what the API gives.
get_google_play_vitals(f) ==
  IF ~f.GOOGLE_PLAY_AVAILABLE THEN {NoneStr}
  ELSE IF ~f.key_file THEN {NoneStr}
  ELSE VitalsOutcomes

\* The synchronous tail of collect_app_data: the fallback-API fetch, made
\* when the client libraries were imported, then "return app_data".
FetchVitalsAndReturn ==
  /\ pc = "fetch_vitals"
  /\ \E vitals_data \in (IF fallback.GOOGLE_PLAY_AVAILABLE
                          THEN get_google_play_vitals(fallback)
                          ELSE {NoneStr}) :
       cl' = [cl EXCEPT ![cur].app_data.google_play_vitals =
                          IF vitals_data # NoneStr THEN vitals_data ELSE @]
  /\ pc' = "returned"
  /\ UNCHANGED <<report_days, DATE_RANGE_DAYS, harness, fallback, drawn, browser, idx, elapsed, seen, last,
                 inflight, page_url, apps>>

\* A response is observed: the page calls every registered handler, and
\* each runs up to its first await.  A response that every handler ignores
\* leaves the program as it is; it is a step only where such responses are
\* logged, and then `last` names it until the next step.  A suspended
\* handler is recorded with the phase its guard was evaluated in.
Respond(id) ==
  /\ EventSlot
  /\ LET started == [a \in DOMAIN cl |-> HandleStart(cl[a], a, Body(id, report_days))]
         awaiting == {a \in DOMAIN cl : started[a].branch # "none"}
         handlers == {[app |-> a, branch |-> started[a].branch, r |-> id,
                       phase |-> cl[a].current_phase,
                       total_installs |-> started[a].total_installs] : a \in awaiting}
         passed == handlers # {} \/ \E a \in DOMAIN cl : started[a].c # cl[a]
     IN /\ BagCardinality(inflight) + Cardinality(handlers) <= MaxInFlight
        /\ passed => seen < Budget
        /\ ~passed => last = NoResponse /\ harness = "probe"
        /\ last' = IF passed \/ harness # "probe" THEN NoResponse ELSE id
        /\ cl' = [a \in DOMAIN cl |-> started[a].c]
        /\ inflight' = inflight (+) SetToBag(handlers)
        /\ seen' = IF passed THEN seen + 1 ELSE seen
  /\ UNCHANGED <<report_days, DATE_RANGE_DAYS, harness, fallback, drawn, browser, idx, pc, elapsed,
                 page_url, apps>>

Observe == EventSlot /\ \E id \in Responses(idx) : Respond(id)

\* The body read of a suspended handler returns and the handler runs to
\* its end.
Complete(h) ==
  /\ EventSlot
  /\ BagIn(h, inflight)
  /\ cl' = [cl EXCEPT ![h.app] =
                HandleResume(cl[h.app], [h EXCEPT !.r = Body(h.r, report_days)],
                             DATE_RANGE_DAYS)]
  /\ inflight' = inflight (-) SetToBag({h})
  /\ last' = NoResponse
  /\ UNCHANGED <<report_days, DATE_RANGE_DAYS, harness, fallback, drawn, browser, idx, pc, elapsed, seen,
                 page_url, apps>>

BodyRead == \E h \in BagToSet(inflight) : Complete(h)

\* open_firebase_console: collect_app_data returned app_data, which is
\* stored (the same dict the handler closes over), and the loop pauses.
StoreAndPause ==
  /\ harness \in {"batch", "session"}
  /\ pc = "returned"
  /\ apps' = Append(apps, cur)
  /\ pc' = "pause"
  /\ UNCHANGED <<report_days, DATE_RANGE_DAYS, harness, fallback, drawn, browser, idx, elapsed, seen, last,
                 cl, inflight, page_url>>

\* The pause between two apps ends and the loop takes the next app.
PauseDone ==
  /\ pc = "pause"
  /\ idx' = idx + 1
  /\ pc' = "call"
  /\ last' = NoResponse
  /\ UNCHANGED <<report_days, DATE_RANGE_DAYS, harness, fallback, drawn, browser, elapsed, seen, cl,
                 inflight, page_url, apps>>

\* The loop stores an entry for the app whose collection returned None.
SkipFailedStores ==
  /\ harness \in {"batch", "session"}
  /\ pc = "failed"
  /\ idx' = idx + 1
  /\ pc' = "call"
  /\ apps' = Append(apps, cur)
  /\ last' = NoResponse
  /\ UNCHANGED <<report_days, DATE_RANGE_DAYS, harness, fallback, drawn, browser, elapsed, seen, cl,
                 inflight, page_url>>

\* collect_app_data returned None: nothing is stored and the loop takes
\* the next app at once.
SkipFailed ==
  /\ harness \in {"batch", "session"}
  /\ pc = "failed"
  /\ idx' = idx + 1
  /\ pc' = "call"
  /\ last' = NoResponse
  /\ UNCHANGED <<report_days, DATE_RANGE_DAYS, harness, fallback, drawn, browser, elapsed, seen, cl,
                 inflight, page_url, apps>>

\* A finally clause that leaves the browser as it is.
FinallyKeepsOpen(b) == b

\* The finally clause of open_firebase_console: close() is awaited on a
\* browser that was created, and whatever it raises is swallowed.
Finally(b) == IF b = NoneStr THEN NoneStr ELSE "closed"

\* open_firebase_console leaves through its finally clause.
Exit ==
  /\ browser' = Finally(browser)
  /\ pc' = "exited"
  /\ last' = NoResponse
  /\ UNCHANGED <<report_days, DATE_RANGE_DAYS, harness, fallback, drawn, idx, elapsed, seen, cl,
                 inflight, page_url, apps>>

\* Browser(**browser_config) returns.
CreateBrowser ==
  /\ pc = "create_browser"
  /\ browser' = "Browser"
  /\ pc' = "start_browser"
  /\ UNCHANGED <<report_days, DATE_RANGE_DAYS, harness, fallback, drawn, idx, elapsed, seen, last,
                 cl, inflight, page_url, apps>>

\* browser.start() returns.
StartBrowser ==
  /\ pc = "start_browser"
  /\ pc' = "get_page"
  /\ UNCHANGED <<report_days, DATE_RANGE_DAYS, harness, fallback, drawn, browser, idx, elapsed, seen,
                 last, cl, inflight, page_url, apps>>

\* A page is obtained, at once or after the navigation to about:blank,
\* and its timeout and routes are set: the loop over the apps begins.
GetPage ==
  /\ pc = "get_page"
  /\ pc' = "call"
  /\ UNCHANGED <<report_days, DATE_RANGE_DAYS, harness, fallback, drawn, browser, idx, elapsed, seen,
                 last, cl, inflight, page_url, apps>>

\* The labels of the session set-up.
SetupLabels == {"create_browser", "start_browser", "get_page"}

\* The session fails: the constructor or an await of the set-up raises,
\* or no page can be obtained (RuntimeError); "except Exception" reports
\* it and the finally clause runs.
SessionFails ==
  /\ pc \in SetupLabels
  /\ Exit

\* The loop over the apps is over: the results are saved, the summary is
\* printed and the finally clause runs.
SaveAndClose ==
  /\ pc = "call"
  /\ harness \in {"batch", "session"}
  /\ idx > NumApps
  /\ Exit

\* Where the run can be interrupted: every await of the session, and the
\* synchronous fallback-API fetch.
InterruptPoints == pc \in {"start_browser", "get_page", "fetch_vitals"} \/ Suspended

\* The run is interrupted (KeyboardInterrupt, or the cancellation that
\* asyncio.run makes of it): neither "except Exception" of
\* collect_app_data nor the except clauses that follow the loop resume
\* it, and the finally clause runs.
Interrupt ==
  /\ InterruptPoints
  /\ Exit

\* ------------------------------------------------------- specifications
NoPage == [page |-> "about:blank", app |-> "none", time |-> "none"]

\* The client libraries are installed and the service-account file is there.
Configured == [GOOGLE_PLAY_AVAILABLE |-> TRUE, key_file |-> TRUE]

InitCommon ==
  /\ harness # "payloads" => drawn = NoDrawn
  /\ report_days \in {7}
  /\ DATE_RANGE_DAYS = report_days
  /\ elapsed = 0
  /\ seen = 0
  /\ last = NoResponse
  /\ cl = [a \in {} |-> NewClosure(a)]
  /\ inflight = EmptyBag
  /\ page_url = NoPage
  /\ apps = << >>

\* open_firebase_console(report_days) run from __main__, which sets
\* DATE_RANGE_DAYS to the same value.  The first MaxApps apps of the
\* registry are explored in full; for the apps after them the first
\* navigation raises, and the page is quiet.
Init ==
  /\ harness = "batch"
  /\ fallback = Configured
  /\ browser = NoneStr
  /\ pc = "create_browser"
  /\ idx = 1
  /\ InitCommon

\* collect_app_data called once, for any app of the registry, on a page
\* with no handler registered.
InitApp ==
  /\ harness = "app"
  /\ fallback = Configured
  /\ browser = "Browser"
  /\ pc = "call"
  /\ idx \in 1..NumApps
  /\ InitCommon

\* The same call, with every ignored response logged in `last`.
InitProbe ==
  /\ harness = "probe"
  /\ fallback = Configured
  /\ browser = "Browser"
  /\ pc = "call"
  /\ idx \in 1..NumApps
  /\ InitCommon

\* The same call once more, for the runs in which every await returns.
InitLive ==
  /\ harness = "live"
  /\ fallback = Configured
  /\ browser = "Browser"
  /\ pc = "call"
  /\ idx \in 1..NumApps
  /\ InitCommon

\* The same run, with no response beyond those the waits need, and open
\* to interrupts.
InitSession ==
  /\ harness = "session"
  /\ fallback = Configured
  /\ browser = NoneStr
  /\ pc = "create_browser"
  /\ idx = 1
  /\ InitCommon

\* collect_app_data called once, under every state of the fallback
\* credentials.
InitVitals ==
  /\ harness = "vitals"
  /\ fallback \in [GOOGLE_PLAY_AVAILABLE : BOOLEAN, key_file : BOOLEAN]
  /\ browser = "Browser"
  /\ pc = "call"
  /\ idx \in 1..NumApps
  /\ InitCommon

\* collect_app_data called once, for an app that runs every phase, in a
\* run whose "drawn" response carries one of the given payloads.
InitDrawn(payloads) ==
  /\ harness = "payloads"
  /\ drawn \in payloads
  /\ fallback = Configured
  /\ browser = "Browser"
  /\ pc = "call"
  /\ idx \in {i \in 1..NumApps : /\ APPS_CONFIG[AppKeys[i]].has_ios
                                  /\ APPS_CONFIG[AppKeys[i]].has_p90_launch_time}
  /\ InitCommon

Sequencer ==
  \/ CollectStart
  \/ GotoFirebase
  \/ WaitMetrics
  \/ SleepAfterMetrics
  \/ GotoCrashes
  \/ WaitCrashes
  \/ NavNonFatals
  \/ WaitNonFatals
  \/ NavAnrMetrics
  \/ WaitAnrMetrics
  \/ SleepBeforeIos
  \/ NavIosMetrics
  \/ WaitIosMetrics
  \/ WaitIosCrashes
  \/ NavIosNonFatals
  \/ WaitIosNonFatals
  \/ NavUpAnrs
  \/ WaitUpAnrs
  \/ NavIosDominantRelease
  \/ WaitIosDominantRelease
  \/ NavAndroidDominantRelease
  \/ WaitAndroidDominantRelease
  \/ NavP90Launch
  \/ WaitP90Launch
  \/ FetchVitalsAndReturn

NextApp ==
  \/ Sequencer
  \/ NavigationFails
  \/ Observe
  \/ BodyRead

Next ==
  \/ CreateBrowser
  \/ StartBrowser
  \/ GetPage
  \/ SessionFails
  \/ NextApp
  \/ StoreAndPause
  \/ PauseDone
  \/ SkipFailed
  \/ SaveAndClose

Spec == Init /\ [][Next]_vars

NextSession ==
  \/ Next
  \/ Interrupt

SpecSession == InitSession /\ [][NextSession]_vars

SpecVitals == InitVitals /\ [][NextApp]_vars

SpecPayloads == InitDrawn(DrawnPayloads) /\ [][NextApp]_vars

SpecTimelines == InitDrawn(DrawnTimelines) /\ [][NextApp]_vars

SpecReports == InitDrawn(DrawnReports) /\ [][NextApp]_vars

SpecReleases == InitDrawn(DrawnReleases) /\ [][NextApp]_vars

SpecCaptions ==
  /\ InitDrawn({[family |-> "issues", rows |-> s] : s \in Picks(CaptionPool, MaxRows)})
  /\ [][NextApp]_vars

SpecApp == InitApp /\ [][NextApp]_vars

SpecProbe == InitProbe /\ [][NextApp]_vars

\* Every await of the sequencer returns.
Fairness == WF_vars(Sequencer)

SpecLive == InitLive /\ [][NextApp]_vars /\ Fairness

\* ============================================================ properties
Phases ==
  <<"metrics", "crashes", "non_fatals", "anr_metrics", "anrs", "ios_metrics", "ios_crashes",
    "ios_non_fatals", "up_anrs", "ios_dominant_release", "android_dominant_release",
    "android_p90_launch">>

PhaseRank(phase) == CHOOSE i \in 1..Len(Phases) : Phases[i] = phase

\* The handlers a step adds for the closure of app a.
Started(a) ==
  {h \in BagToSet(inflight') : h.app = a /\ CopiesIn(h, inflight') > CopiesIn(h, inflight)}

\* C1: within one collect_app_data run current_phase always holds one of the
\* twelve phase values, and every step leaves it where it is or moves it to
\* a later phase of the fixed order: no phase is entered again once left.
C1_PhaseForward ==
  [][\A a \in DOMAIN cl :
       /\ \E i \in 1..Len(Phases) : Phases[i] = cl[a].current_phase
       /\ \E i \in 1..Len(Phases) : Phases[i] = cl'[a].current_phase
       /\ PhaseRank(cl'[a].current_phase) >= PhaseRank(cl[a].current_phase)]_vars

\* A collection that went through all twelve phases and returned.
C1_Witness ==
  /\ pc = "returned"
  /\ APPS_CONFIG[cur].has_ios
  /\ cl[cur].current_phase = "android_p90_launch"

\* C2: once collect_app_data has returned the app_data of an app and the
\* batch stored it, no step changes any field of that stored app_data.
C2_StoredResultFrozen ==
  [][\A i \in 1..Len(apps) : cl'[apps[i]].app_data = cl[apps[i]].app_data]_vars

\* The phases in which the code gives a response of this URL a meaning, for
\* the handler of app a.
SignaturePhases(r, a) ==
  CASE r.kind = "getMetricsReport" ->
         {"metrics", "anr_metrics", "ios_metrics", "ios_crashes", "ios_non_fatals"}
    [] r.kind = "listFirebaseTopOpenIssues" ->
         {"crashes", "non_fatals", "anrs", "ios_crashes", "ios_non_fatals"}
    [] r.kind = "errorClusters" ->
         IF r.pc_app_id = APPS_CONFIG[a].play_console_app_id THEN {"up_anrs"} ELSE {}
    [] r.kind = "venus" -> {"ios_dominant_release", "android_dominant_release"}
    [] r.kind = "listTimelines" -> {"android_p90_launch"}
    [] OTHER -> {}

\* C3: when a response is observed whose URL signature belongs to no phase
\* or to phases other than the one a handler's closure is in, that closure
\* (app_data, install counts, every flag) is left as it is and the handler
\* does not go on to read the body.
C3_PhaseGuard ==
  [][\A id \in Responses(idx) :
       Respond(id) =>
         \A a \in DOMAIN cl :
           cl[a].current_phase \notin SignaturePhases(Body(id, report_days), a) =>
             cl'[a] = cl[a] /\ Started(a) = {}]_vars

\* A top-issues list was just ignored in the up_anrs phase, with crash
\* entries already captured.
C3_Witness ==
  /\ last = Id("top_issues")
  /\ cl[cur].current_phase = "up_anrs"
  /\ cl[cur].app_data.android.top_crashes # << >>
  /\ inflight = EmptyBag

\* The closure c is in the phase response r belongs to and the flag of that
\* phase is already true.
Satisfied(c, r, a) ==
  \/ /\ r.kind = "getMetricsReport"
     /\ c.current_phase = "metrics"
     /\ c.metrics_captured
  \/ /\ r.kind = "errorClusters"
     /\ r.pc_app_id = APPS_CONFIG[a].play_console_app_id
     /\ c.current_phase = "up_anrs"
     /\ c.play_console_anrs_captured
  \/ /\ r.kind = "venus"
     /\ c.current_phase = "ios_dominant_release"
     /\ c.ios_dominant_release_captured
  \/ /\ r.kind = "venus"
     /\ c.current_phase = "android_dominant_release"
     /\ c.android_dominant_release_captured
  \/ /\ r.kind = "listTimelines"
     /\ c.current_phase = "android_p90_launch"
     /\ c.android_p90_launch_captured

\* C4: a response of the metrics, Play-console, dominant-release or
\* launch-time signature that is observed when the flag of its phase is
\* already true is ignored: the closure is left as it is and the handler
\* does not go on to read the body.
C4_AtMostOnce ==
  [][\A id \in Responses(idx) :
       Respond(id) =>
         \A a \in DOMAIN cl :
           Satisfied(cl[a], Body(id, report_days), a) =>
             cl'[a] = cl[a] /\ Started(a) = {}]_vars

\* The issue lists of an app_data whose entries carry a rank.
RankedLists(d) ==
  {d.android.top_crashes, d.android.top_non_fatals, d.android.all_anrs,
   d.ios.top_crashes, d.ios.top_non_fatals}

\* C5: every issue list holds at most 3 entries, and the ranked ones carry
\* the ranks 1..n in order.
C5_OnePayloadPerList ==
  \A a \in DOMAIN cl :
    /\ Len(cl[a].app_data.android.up_anrs) <= 3
    /\ \A list \in RankedLists(cl[a].app_data) :
         /\ Len(list) <= 3
         /\ \A i \in 1..Len(list) : list[i].rank = i

\* The row of a report that a stored rate and install count may come from:
\* it has the fatality, its own window is valid, and it carries the values.
RowBacks(r, fatality, rate, installs) ==
  \E i \in 1..Len(r.rows) :
    /\ r.rows[i].fatality = fatality
    /\ is_valid_date_range(r.rows[i].startTime, r.rows[i].endTime, DATE_RANGE_DAYS)
    /\ rate = RatePercent(r.rows[i].ratio)
    /\ installs = r.rows[i].installs

\* C6: whenever a metrics report changes a crash-free rate or an install
\* total, Android or iOS, the new values come from a row of that report
\* whose own window ends today and starts DATE_RANGE_DAYS - 1 days before.
C6_ValidWindowOnly ==
  [][\A h \in BagToSet(inflight) :
       Complete(h) =>
         LET r == Body(h.r, report_days)
             old == cl[h.app].app_data
             new == cl'[h.app].app_data
             backed(o, n, fatality, key) ==
               (o.crash_free_rates[key] # n.crash_free_rates[key]
                \/ o.total_installs[key] # n.total_installs[key])
                 => RowBacks(r, fatality, n.crash_free_rates[key], n.total_installs[key])
         IN /\ backed(old.android, new.android, "FATAL", "fatal")
            /\ backed(old.android, new.android, "NON_FATAL", "non_fatal")
            /\ backed(old.ios, new.ios, "FATAL", "fatal")
            /\ backed(old.ios, new.ios, "NON_FATAL", "non_fatal")]_vars

\* C7: the ios section of an app without iOS is, in every state, the one
\* its app_data was created with.
C7_IosUntouched ==
  \A a \in DOMAIN cl :
    ~APPS_CONFIG[a].has_ios => cl[a].app_data.ios = NewAppData(a).ios

\* An app without iOS returned after a dominant-release response was
\* captured for Android.
C7_Witness ==
  /\ pc = "returned"
  /\ ~APPS_CONFIG[cur].has_ios
  /\ cl[cur].app_data.android.dominant_release # NoneStr
  /\ cl[cur].app_data.android.top_crashes # << >>

\* C8: an app without iOS is never in an iOS phase; an app without the
\* launch-time capability is never in android_p90_launch and its
\* p90_launch_time_seconds stays None.
C8_GatedStagesSkipped ==
  \A a \in DOMAIN cl :
    /\ ~APPS_CONFIG[a].has_ios =>
         cl[a].current_phase \notin
           {"ios_metrics", "ios_crashes", "ios_non_fatals", "ios_dominant_release"}
    /\ ~APPS_CONFIG[a].has_p90_launch_time =>
         /\ cl[a].current_phase # "android_p90_launch"
         /\ cl[a].app_data.android.p90_launch_time_seconds = None

\* The app without the launch-time capability returned from its last
\* phase, android_dominant_release.
C8_Witness ==
  /\ pc = "returned"
  /\ ~APPS_CONFIG[cur].has_p90_launch_time
  /\ cl[cur].current_phase = "android_dominant_release"
  /\ cl[cur].android_dominant_release_captured

\* The field a deadline-bounded wait is for still has the value app_data
\* was created with.
WaitFieldEmpty(c, label) ==
  LET d == c.app_data
      new == NewAppData(d.app_key)
  IN CASE label = "wait_ios_metrics" ->
            /\ d.ios.crash_free_rates = new.ios.crash_free_rates
            /\ d.ios.total_installs = new.ios.total_installs
       [] label = "wait_ios_crashes" -> d.ios.top_crashes = << >>
       [] label = "wait_ios_non_fatals" -> d.ios.top_non_fatals = << >>
       [] label = "wait_up_anrs" -> d.android.up_anrs = << >>
       [] label = "wait_ios_dominant_release" -> d.ios.dominant_release = NoneStr
       [] label = "wait_android_dominant_release" -> d.android.dominant_release = NoneStr
       [] label = "wait_android_p90_launch" -> d.android.p90_launch_time_seconds = None

C10_Returns ==
  (cur \in DOMAIN cl /\ cl[cur].anr_metrics_captured) ~> (pc \in {"returned", "failed"})

\* A collection returned after its launch-time wait ran into the deadline.
C10_Witness ==
  /\ pc = "returned"
  /\ cl[cur].anr_metrics_captured
  /\ cl[cur].android_p90_launch_captured
  /\ cl[cur].app_data.android.p90_launch_time_seconds = None
  /\ cl[cur].current_phase = "android_p90_launch"

\* C11: while the sequencer polls in one of the phases metrics, crashes,
\* non_fatals and anr_metrics and the flag of that phase is false, no step
\* takes it out of the wait: the phase, the app being collected and the
\* stored results stay as they are, and the collection does not return.
C11_NoDeadline ==
  [][(pc \in UntimedWaits /\ ~WaitFlag(cl[cur], pc)) =>
       /\ pc' = pc
       /\ idx' = idx
       /\ cl'[cur].current_phase = cl[cur].current_phase
       /\ apps' = apps]_vars

\* The second app waits in phase non_fatals: a response was ignored since
\* the wait began, no handler is suspended and the flag is still false.
C11_Witness ==
  /\ idx = 2
  /\ pc = "wait_non_fatals"
  /\ cl[cur].current_phase = "non_fatals"
  /\ ~cl[cur].non_fatals_captured
  /\ inflight = EmptyBag
  /\ seen > Served

\* C12: when the collection of an app raised, the run does not end: the
\* next step is the loop taking the next app of the registry, and it
\* stores nothing.  The stored results change only by the loop appending
\* the app whose collection just returned a result, and every collection
\* that returned a result is stored: when the run is over the stored apps
\* are exactly those whose collection returned a result.
C12_FailedAppSkipped ==
  [][/\ pc = "failed" => (pc' = "call" /\ idx' = idx + 1 /\ apps' = apps)
     /\ apps' # apps => (pc = "returned" /\ apps' = Append(apps, cur))
     /\ pc = "returned" => apps' = Append(apps, cur)]_vars

\* The run is over: the first navigation of the first app raised, the
\* second app returned a result, and it alone is stored.
C12_Witness ==
  /\ pc = "exited"
  /\ idx = NumApps + 1
  /\ apps = <<AppKeys[2]>>
  /\ cl[AppKeys[1]].current_phase = "metrics"
  /\ cl[AppKeys[2]].current_phase # "metrics"

\* C13: the phase sequence of an app starts only from the loop of
\* open_firebase_console, the loop goes from an app to the one after it in
\* the registry, and it does so only out of the pause, also after an app
\* whose collection failed.
C13_PauseBetweenApps ==
  [][/\ (pc' = "goto_firebase" /\ pc # "goto_firebase") => pc = "call"
     /\ idx' # idx => (idx' = idx + 1 /\ pc = "pause")]_vars

\* C14: the step that calls the fallback API for an app is taken only when
\* no later app of the registry has console phases to run.
C14_FallbackAfterAllApps ==
  [][(pc = "fetch_vitals" /\ pc' = "returned" /\ fallback.GOOGLE_PLAY_AVAILABLE) =>
       idx = NumApps]_vars

\* C15: when the client libraries are missing or the service-account file
\* does not exist, the tail of collect_app_data does not raise: it returns
\* app_data with google_play_vitals still None and every other field as
\* the console phases left it.
C15_AbsentCredentials ==
  [][(/\ pc = "fetch_vitals"
      /\ pc' # pc
      /\ ~fallback.GOOGLE_PLAY_AVAILABLE \/ ~fallback.key_file) =>
       /\ pc' = "returned"
       /\ cl'[cur].app_data = cl[cur].app_data
       /\ cl'[cur].app_data.google_play_vitals = NoneStr]_vars

\* A collection returned with the client libraries installed and no
\* service-account file: the metrics of the console are in the result and
\* google_play_vitals is None.
C15_Witness ==
  /\ pc = "returned"
  /\ fallback.GOOGLE_PLAY_AVAILABLE
  /\ ~fallback.key_file
  /\ cl[cur].app_data.android.crash_free_rates.fatal # Absent
  /\ cl[cur].app_data.google_play_vitals = NoneStr

\* C16: every step by which open_firebase_console returns (the loop is
\* over, the session could not be set up, or the run is interrupted in
\* the set-up or in any phase of any app) has awaited close() on the
\* browser if the browser was created; when the session could not be set
\* up no collection was started, and nothing runs once the function
\* returned.
C16_Teardown ==
  [][/\ (pc # "exited" /\ pc' = "exited") =>
          /\ browser # NoneStr => browser' = "closed"
          /\ pc \in SetupLabels => (DOMAIN cl = {} /\ apps = << >> /\ idx = 1)
     /\ pc = "exited" => UNCHANGED vars]_vars

\* The run was interrupted while the second app, which has an iOS
\* counterpart, was in phase ios_crashes with one result stored: the
\* browser is closed.
C16_Witness ==
  /\ pc = "exited"
  /\ browser = "closed"
  /\ idx = 2
  /\ apps = <<AppKeys[1]>>
  /\ cl[cur].current_phase = "ios_crashes"

\* The orders in which the rows of a payload can come.
Permuted(rows) ==
  {[i \in 1..Len(rows) |-> rows[p[i]]] :
     p \in {q \in [1..Len(rows) -> 1..Len(rows)] :
              \A i, j \in 1..Len(rows) : i # j => q[i] # q[j]}}

\* How many entries of a grouping carry each (key, devices, events).
Tally(entries) ==
  [e \in {entries[i] : i \in 1..Len(entries)} |->
     Cardinality({i \in 1..Len(entries) : entries[i] = e})]

\* The groups of an issue list with their summed counts.  The iOS phases
\* keep every row as an entry of its own, known by the name it is shown
\* under.
IssueSums(rows, phase) ==
  LET grouped == GroupIssues(rows, phase, << >>)
  IN Tally([i \in 1..Len(grouped) |->
              [key |-> IF grouped[i].key = "" THEN grouped[i].title ELSE grouped[i].key,
               devices |-> grouped[i].impactedDevicesCount,
               events |-> grouped[i].eventsCount]])

\* The groups of a clusters payload with their summed counts.
AnrSums(rows) ==
  LET grouped == GroupAnrs(rows, << >>)
  IN Tally([i \in 1..Len(grouped) |->
              [key |-> grouped[i].name,
               devices |-> grouped[i].affected_users,
               events |-> grouped[i].event_count]])

\* C17: when a handler groups the rows of an issue list or of a clusters
\* payload, the summed impacted-device (or affected-user) count and event
\* count of every group are those it would get from the same rows in any
\* other order.
C17_GroupingOrderFree ==
  [][\A h \in BagToSet(inflight) :
       Complete(h) =>
         LET rows == Body(h.r, report_days).rows
             phase == cl[h.app].current_phase
         IN /\ h.branch = "top_issues" =>
                 \A other \in Permuted(rows) : IssueSums(other, phase) = IssueSums(rows, phase)
            /\ h.branch = "play_console_anrs" =>
                 \A other \in Permuted(rows) : AnrSums(other) = AnrSums(rows)]_vars

\* The crash list was made from a payload in which two rows of 10 devices,
\* 50 events and 5 devices, 20 events share a subtitle: the first entry
\* has 15 devices and 70 events.
C17_Witness ==
  /\ drawn.family = "issues"
  /\ Len(drawn.rows) = MaxRows
  /\ cur \in DOMAIN cl
  /\ cl[cur].crashes_captured
  /\ Len(cl[cur].app_data.android.top_crashes) = 3
  /\ cl[cur].app_data.android.top_crashes[1].name = "X"
  /\ cl[cur].app_data.android.top_crashes[1].impacted_devices = 15
  /\ cl[cur].app_data.android.top_crashes[1].events = 70

\* The ways to take n different groups out of m.
Injections(n, m) ==
  {f \in [1..n -> 1..m] : \A i, j \in 1..n : i # j => f[i] # f[j]}

\* top is a selection of the best 3 of the groups, which come in
\* first-seen order as records [k |-> ranking metric, v |-> what an entry
\* shows of the group]: at most 3 entries and none left out for lack of
\* room, the metric never rising along the list, groups of equal metric in
\* first-seen order, and no group left out that has a higher metric than a
\* group in the list.
IsTopOf(top, groups) ==
  /\ Len(top) = (IF Len(groups) < 3 THEN Len(groups) ELSE 3)
  /\ \E f \in Injections(Len(top), Len(groups)) :
       /\ \A i \in 1..Len(top) : top[i] = groups[f[i]].v
       /\ \A i, j \in 1..Len(top) :
            i < j => \/ groups[f[i]].k > groups[f[j]].k
                     \/ groups[f[i]].k = groups[f[j]].k /\ f[i] < f[j]
       /\ \A d \in 1..Len(groups) :
            (\A i \in 1..Len(top) : f[i] # d) =>
               \A i \in 1..Len(top) : groups[d].k <= groups[f[i]].k

\* The phases in which the top-issues branch stores entries.
IssuePhases == {"crashes", "non_fatals", "anrs", "ios_crashes", "ios_non_fatals"}

\* The list the top-issues branch appends to in a phase.
IssueList(c, phase) ==
  CASE phase = "crashes" -> c.app_data.android.top_crashes
    [] phase = "non_fatals" -> c.app_data.android.top_non_fatals
    [] phase = "anrs" -> c.app_data.android.all_anrs
    [] phase = "ios_crashes" -> c.app_data.ios.top_crashes
    [] phase = "ios_non_fatals" -> c.app_data.ios.top_non_fatals
    [] OTHER -> << >>

\* C18: the entries a handler stores from one payload are a selection of
\* the best 3 of the payload's groups, ranked by summed impacted devices
\* for an issue list and by summed impact ratio for the Play-console
\* clusters.
C18_TopThree ==
  [][\A h \in BagToSet(inflight) :
       Complete(h) =>
         LET rows == Body(h.r, report_days).rows
             phase == cl[h.app].current_phase
             before == IssueList(cl[h.app], phase)
             after == IssueList(cl'[h.app], phase)
             issues == GroupIssues(rows, phase, << >>)
             anrs == GroupAnrs(rows, << >>)
         IN /\ (h.branch = "top_issues" /\ phase \in IssuePhases) =>
                 IsTopOf([i \in 1..(Len(after) - Len(before)) |->
                            [name |-> after[Len(before) + i].name,
                             devices |-> after[Len(before) + i].impacted_devices,
                             events |-> after[Len(before) + i].events]],
                         [i \in 1..Len(issues) |->
                            [k |-> issues[i].impactedDevicesCount,
                             v |-> [name |-> issues[i].title,
                                    devices |-> issues[i].impactedDevicesCount,
                                    events |-> issues[i].eventsCount]]])
            /\ h.branch = "play_console_anrs" =>
                 IsTopOf([i \in 1..Len(cl'[h.app].app_data.android.up_anrs) |->
                            [name |-> cl'[h.app].app_data.android.up_anrs[i].name,
                             users |-> cl'[h.app].app_data.android.up_anrs[i].affected_users,
                             events |-> cl'[h.app].app_data.android.up_anrs[i].events]],
                         [i \in 1..Len(anrs) |->
                            [k |-> anrs[i].impact_percentage,
                             v |-> [name |-> anrs[i].name,
                                    users |-> anrs[i].affected_users,
                                    events |-> anrs[i].event_count]]])]_vars

\* The Play-console list was made from a payload of four clusters of
\* different names, two of them with the same ratio: the one seen first
\* is third in the list and the other is left out.
C18_Witness ==
  /\ drawn.family = "clusters"
  /\ Len(drawn.rows) = 4
  /\ Cardinality({drawn.rows[i].name : i \in 1..4}) = 4
  /\ \E i, j \in 1..4 : i < j /\ drawn.rows[i].name = "N4" /\ drawn.rows[j].name = "N2"
  /\ cur \in DOMAIN cl
  /\ Len(cl[cur].app_data.android.up_anrs) = 3
  /\ cl[cur].app_data.android.up_anrs[1].name = "N3"
  /\ cl[cur].app_data.android.up_anrs[2].name = "N1"
  /\ cl[cur].app_data.android.up_anrs[3].name = "N4"

\* C19: a handler of the launch-time branch that read a payload with no
\* projection dated today or yesterday with at least 19 quantiles ends
\* without changing anything: p90_launch_time_seconds and
\* android_p90_launch_captured are as they were.
C19_LaunchTimeOnlyFromRecent ==
  [][\A h \in BagToSet(inflight) :
       (Complete(h) /\ h.branch = "p90_launch") =>
         LET projections == Body(h.r, report_days).rows
             recent == \E i \in 1..Len(projections) :
                          /\ projections[i].startTime.ok
                          /\ projections[i].startTime.day \in {0, 0 - 1}
                          /\ projections[i].quantiles >= 19
         IN ~recent =>
              /\ cl'[h.app].app_data.android.p90_launch_time_seconds
                   = cl[h.app].app_data.android.p90_launch_time_seconds
              /\ cl'[h.app].android_p90_launch_captured = cl[h.app].android_p90_launch_captured
              /\ cl'[h.app] = cl[h.app]]_vars

\* The launch time was taken from yesterday's projection, which follows
\* one dated the day before in the payload.
C19_Witness ==
  /\ drawn.family = "timelines"
  /\ Len(drawn.rows) = 2
  /\ drawn.rows[1].startTime.day = 0 - 2
  /\ drawn.rows[2].startTime.day = 0 - 1
  /\ cur \in DOMAIN cl
  /\ cl[cur].android_p90_launch_captured
  /\ cl[cur].app_data.android.p90_launch_time_seconds = P90Seconds(2345678)

\* The rate and the install count stored under a key are those of a row
\* of the fatality that has an interval: the rate is the row's ratio as a
\* percentage, to the nearest hundredth.
StoredFromRow(android, key, rows, fatality) ==
  LET of == {i \in 1..Len(rows) : rows[i].fatality = fatality /\ rows[i].intervalMetrics}
  IN of # {} =>
       \E i \in of :
         /\ 10 * android.crash_free_rates[key] - rows[i].ratio \in (0 - 5)..5
         /\ android.total_installs[key] = rows[i].installs

\* C20: a handler of the metrics branch that stores anything, or sets
\* metrics_captured, has set it and has stored the crash-free rates and
\* the install counts of the report it read: under "fatal" those of a
\* FATAL row, under "non_fatal" those of a NON_FATAL row, each rate the
\* row's ratio times 100 to two decimals.
C20_RatesFromReport ==
  [][\A h \in BagToSet(inflight) :
       (/\ Complete(h)
        /\ h.branch = "metrics"
        /\ \/ cl'[h.app].app_data # cl[h.app].app_data
           \/ cl'[h.app].metrics_captured # cl[h.app].metrics_captured) =>
         LET rows == Body(h.r, report_days).rows
             android == cl'[h.app].app_data.android
         IN /\ cl'[h.app].metrics_captured
            /\ StoredFromRow(android, "fatal", rows, "FATAL")
            /\ StoredFromRow(android, "non_fatal", rows, "NON_FATAL")]_vars

\* The report of a 7-day run with a FATAL row of ratio 0.97 and a
\* NON_FATAL row of ratio 0.95, 1000 installs each, was stored as 97.0 and
\* 95.0 with 1000 installs each.
C20_Witness ==
  /\ drawn.family = "report"
  /\ drawn.rows = <<Row("FATAL", 0 - 6, 0, 97000, 1000), Row("NON_FATAL", 0 - 6, 0, 95000, 1000)>>
  /\ report_days = 7
  /\ cur \in DOMAIN cl
  /\ cl[cur].metrics_captured
  /\ cl[cur].app_data.android.crash_free_rates = [fatal |-> 9700, non_fatal |-> 9500]
  /\ cl[cur].app_data.android.total_installs = [fatal |-> 1000, non_fatal |-> 1000]

\* The devices and the events of the rows of one subtitle, summed.
RECURSIVE SubtitleSum(_, _)
SubtitleSum(rows, subtitle) ==
  IF Len(rows) = 0 THEN [devices |-> 0, events |-> 0]
  ELSE LET rest == SubtitleSum(Tail(rows), subtitle)
       IN IF Head(rows).subtitle = subtitle
          THEN [devices |-> rest.devices + Head(rows).impactedDevicesCount,
                events |-> rest.events + Head(rows).eventsCount]
          ELSE rest

\* The entries a handler appended to a list.
Appended(before, after) ==
  [i \in 1..(Len(after) - Len(before)) |-> after[Len(before) + i]]

\* C21: of the entries a handler stores from an issue list in phase
\* crashes or non_fatals, at most one is named by a given subtitle of the
\* payload; its impacted devices and events are the sums over the rows of
\* that subtitle and its impact percentage is the whole part of
\* devices x 100 / total installs.
C21_SubtitleEntry ==
  [][\A h \in BagToSet(inflight) :
       (/\ Complete(h)
        /\ h.branch = "top_issues"
        /\ cl[h.app].current_phase \in {"crashes", "non_fatals"}) =>
         LET rows == Body(h.r, report_days).rows
             phase == cl[h.app].current_phase
             new == Appended(IssueList(cl[h.app], phase), IssueList(cl'[h.app], phase))
         IN \A i \in 1..Len(rows) :
              LET subtitle == rows[i].subtitle
                  sum == SubtitleSum(rows, subtitle)
                  named == {j \in 1..Len(new) : new[j].name = subtitle}
              IN subtitle # "Unknown" =>
                   /\ Cardinality(named) <= 1
                   /\ \A j \in named :
                        /\ new[j].impacted_devices = sum.devices
                        /\ new[j].events = sum.events
                        /\ h.total_installs > 0 =>
                             new[j].impact_percentage
                               = (sum.devices * 100) \div h.total_installs]_vars

\* The extraction of the report that handler h read raises on the closure
\* c: the body is no JSON, or the row loop of the branch comes to a row
\* whose install count does not parse.
ExtractionRaises(c, h, r) ==
  \/ ~r.json_ok
  \/ /\ h.branch = "metrics"
     /\ ReportWindowValid(r.rows, DATE_RANGE_DAYS)
     /\ AndroidMetricsLoop(r.rows, [c |-> c, fatal_rate |-> None, non_fatal_rate |-> None,
                                    raised |-> FALSE]).raised
  \/ /\ h.branch = "ios_metrics"
     /\ ReportWindowValid(r.rows, DATE_RANGE_DAYS)
     /\ IosMetricsLoop(r.rows, [c |-> c, raised |-> FALSE]).raised

\* C22: a handler whose extraction raises ends with the result, the
\* captured install counts and every completion flag of its app as they
\* were when its body read returned.
C22_DiscardedWhole ==
  [][\A h \in BagToSet(inflight) :
       (Complete(h) /\ ExtractionRaises(cl[h.app], h, Body(h.r, report_days))) =>
         cl'[h.app] = cl[h.app]]_vars

\* all_apps_data as open_firebase_console builds it: the window it records
\* is the module-level global, the apps are those collected so far.
all_apps_data == [date_range_days |-> DATE_RANGE_DAYS, apps |-> apps]

\* The report window a time token stands for (the vendor's 28-day variants
\* are what the code uses for a 30-day run).
TokenWindow(token) ==
  CASE token \in {"last-seven-days", "last7Days", "7", "7d", "7dUserWeighted"} -> 7
    [] token \in {"last-thirty-days", "last28Days", "30", "30d", "28dUserWeighted"} -> 30
    [] OTHER -> 0

\* open_firebase_console(W) for W of 7 or 30, run from __main__ (which has
\* set DATE_RANGE_DAYS to W) or called by an importer of the module (the
\* global keeps its default of 7).
InitWindow ==
  /\ harness = "session"
  /\ drawn = NoDrawn
  /\ fallback = Configured
  /\ browser = NoneStr
  /\ pc = "create_browser"
  /\ idx = 1
  /\ report_days \in {7, 30}
  /\ DATE_RANGE_DAYS \in {7, report_days}
  /\ elapsed = 0
  /\ seen = 0
  /\ last = NoResponse
  /\ cl = [a \in {} |-> NewClosure(a)]
  /\ inflight = EmptyBag
  /\ page_url = NoPage
  /\ apps = << >>

SpecWindow == InitWindow /\ [][Next]_vars

\* C23: once a run of open_firebase_console(W) is collecting an app, the time
\* token of every URL it navigates to, the metric suffix and look-back of
\* the fallback fetch, the span is_valid_date_range expects and the
\* date_range_days of the batch result all stand for W.
C23_OneWindow ==
  DOMAIN cl # {} =>
    /\ page_url # NoPage => TokenWindow(page_url.time) = report_days
    /\ TokenWindow(vitals_window(report_days).suffix) = report_days
    /\ vitals_window(report_days).lookback > report_days
    /\ DATE_RANGE_DAYS = report_days
    /\ all_apps_data.date_range_days = report_days

\* C24: while a handler is suspended between its guard and its state
\* update, the only step that touches the closures or starts or ends a
\* handler is that handler's own completion: no other response is handled
\* and no phase changes in between.
C24_HandlersSerial ==
  [][\A h \in BagToSet(inflight) :
       Complete(h) \/ (cl' = cl /\ inflight' = inflight)]_vars

\* C25: when the timelines payload holds a projection dated today that
\* carries its 19th quantile, the launch time a completing handler stores
\* is read from a projection dated today, wherever that projection stands
\* in the payload.
C25_TodayPreferred ==
  [][\A h \in BagToSet(inflight) :
       (Complete(h) /\ h.branch = "p90_launch") =>
         LET projections == Body(h.r, report_days).rows
             todays == {i \in 1..Len(projections) :
                          /\ projections[i].startTime.ok
                          /\ projections[i].startTime.day = 0
                          /\ projections[i].quantiles >= 19}
             before == cl[h.app].app_data.android.p90_launch_time_seconds
             after == cl'[h.app].app_data.android.p90_launch_time_seconds
         IN (todays # {} /\ after # before) =>
              \E i \in todays : after = P90Seconds(projections[i].q18)]_vars

\* C26: an Android crash or non-fatal payload of at most three rows gives,
\* for every row without a subtitle whose title no other such row shares,
\* an entry named by that title which counts that row alone.
C26_TitleFallback ==
  [][\A h \in BagToSet(inflight) :
       (/\ Complete(h) /\ h.branch = "top_issues"
        /\ cl[h.app].current_phase \in {"crashes", "non_fatals"}) =>
         LET rows == Body(h.r, report_days).rows
             phase == cl[h.app].current_phase
             new == Appended(IssueList(cl[h.app], phase), IssueList(cl'[h.app], phase))
             bare == {i \in 1..Len(rows) : rows[i].subtitle = "Unknown"}
         IN Len(rows) <= 3 =>
              \A i \in bare :
                (\A k \in bare \ {i} : rows[k].title # rows[i].title) =>
                  \E j \in 1..Len(new) :
                    /\ new[j].name = rows[i].title
                    /\ new[j].impacted_devices = rows[i].impactedDevicesCount
                    /\ new[j].events = rows[i].eventsCount]_vars

RECURSIVE TitleSum(_, _)
TitleSum(rows, title) ==
  IF Len(rows) = 0 THEN [devices |-> 0, events |-> 0]
  ELSE LET rest == TitleSum(Tail(rows), title)
       IN IF Head(rows).title = title
          THEN [devices |-> rest.devices + Head(rows).impactedDevicesCount,
                events |-> rest.events + Head(rows).eventsCount]
          ELSE rest

\* C27: the entries a handler stores from an issue list in phase anrs,
\* ios_crashes or ios_non_fatals are one per title of the payload (three
\* at most), each with the summed devices and events of the rows of one
\* title.
C27_TitleEntry ==
  [][\A h \in BagToSet(inflight) :
       (/\ Complete(h) /\ h.branch = "top_issues"
        /\ cl[h.app].current_phase \in {"anrs", "ios_crashes", "ios_non_fatals"}) =>
         LET rows == Body(h.r, report_days).rows
             phase == cl[h.app].current_phase
             new == Appended(IssueList(cl[h.app], phase), IssueList(cl'[h.app], phase))
             titles == {rows[i].title : i \in 1..Len(rows)}
         IN /\ Len(new) <= Cardinality(titles)
            /\ \A j \in 1..Len(new) :
                 \E t \in titles :
                   /\ new[j].impacted_devices = TitleSum(rows, t).devices
                   /\ new[j].events = TitleSum(rows, t).events]_vars

RECURSIVE NameSum(_, _)
NameSum(rows, name) ==
  IF Len(rows) = 0 THEN [users |-> 0, events |-> 0, ratio |-> 0]
  ELSE LET rest == NameSum(Tail(rows), name)
       IN IF Head(rows).name = name
          THEN [users |-> rest.users + Head(rows).affected_users,
                events |-> rest.events + Head(rows).event_count,
                ratio |-> rest.ratio + Head(rows).ratio]
          ELSE rest

\* Cluster name a outranks cluster name b in a payload: its summed ratio is
\* greater, or the same and its first row comes earlier.
Outranks(rows, a, b) ==
  LET first(n) == CHOOSE i \in 1..Len(rows) :
                    rows[i].name = n /\ \A j \in 1..(i - 1) : rows[j].name # n
  IN \/ NameSum(rows, a).ratio > NameSum(rows, b).ratio
     \/ /\ NameSum(rows, a).ratio = NameSum(rows, b).ratio
        /\ first(a) < first(b)

\* C28: a handler of the Play-console branch leaves in android.up_anrs one
\* entry per cluster name, three at most, each with the summed users,
\* events and vendor ratio of its name, the names in descending order of
\* summed ratio with the name seen first ahead on a tie, and no name left
\* out that outranks a listed one.
C28_UpAnrs ==
  [][\A h \in BagToSet(inflight) :
       (/\ Complete(h) /\ h.branch = "play_console_anrs"
        /\ Body(h.r, report_days).json_ok) =>
         LET rows == Body(h.r, report_days).rows
             names == {rows[i].name : i \in 1..Len(rows)}
             list == cl'[h.app].app_data.android.up_anrs
             listed == {list[i].name : i \in 1..Len(list)}
         IN /\ Len(list) = IF Cardinality(names) < 3 THEN Cardinality(names) ELSE 3
            /\ listed \subseteq names
            /\ \A i \in 1..Len(list) :
                 /\ list[i].affected_users = NameSum(rows, list[i].name).users
                 /\ list[i].events = NameSum(rows, list[i].name).events
                 /\ list[i].impact_percentage = RoundHalfEven(NameSum(rows, list[i].name).ratio, 10)
            /\ \A i, j \in 1..Len(list) : i < j => Outranks(rows, list[i].name, list[j].name)
            /\ \A n \in names \ listed : \A i \in 1..Len(list) : Outranks(rows, list[i].name, n)
            /\ cl'[h.app].play_console_anrs_captured]_vars

\* The Play-console list was made from a payload in which two rows named
\* N1 (ratios 0.0012 and 0.0003) come before a row named N3 (0.0015): N1
\* is first with 50 users, 105 events and 0.15 percent, N3 second.
C28_Witness ==
  /\ drawn.family = "clusters"
  /\ cur \in DOMAIN cl
  /\ Len(cl[cur].app_data.android.up_anrs) >= 2
  /\ cl[cur].app_data.android.up_anrs[1] =
       [name |-> "N1", impact_percentage |-> 15, affected_users |-> 50, events |-> 105]
  /\ cl[cur].app_data.android.up_anrs[2].name = "N3"

\* C29: android.up_anrs changes only when a handler of the Play-console
\* branch completes, and play_console_anrs_captured changes in the
\* handling of a response only then; a handler enters that branch only on
\* a response observed in phase up_anrs from the errorClusters endpoint
\* with the Play-console id of its own app, to a request that carries the
\* user-perceived-ANR markers.
C29_UpAnrsWriter ==
  [][/\ \A a \in DOMAIN cl \cap DOMAIN cl' :
          (\/ cl'[a].app_data.android.up_anrs # cl[a].app_data.android.up_anrs
           \/ /\ pc' = pc
              /\ cl'[a].play_console_anrs_captured # cl[a].play_console_anrs_captured) =>
            \E h \in BagToSet(inflight) :
              Complete(h) /\ h.app = a /\ h.branch = "play_console_anrs"
     /\ \A h \in BagToSet(inflight') :
          (h.branch = "play_console_anrs" /\ CopiesIn(h, inflight') > CopiesIn(h, inflight)) =>
            LET r == Body(h.r, report_days)
            IN /\ cl[h.app].current_phase = "up_anrs"
               /\ r.kind = "errorClusters"
               /\ r.pc_app_id = APPS_CONFIG[h.app].play_console_app_id
               /\ r.post_markers]_vars

\* In phase up_anrs the list was written from the clusters of the app
\* being collected, and then the clusters of another app were observed and
\* ignored.
C29_Witness ==
  /\ cur \in DOMAIN cl
  /\ cl[cur].current_phase = "up_anrs"
  /\ Len(cl[cur].app_data.android.up_anrs) = 3
  /\ cl[cur].play_console_anrs_captured
  /\ last.name = "clusters"
  /\ last.app # cur

\* C30: a handler of the dominant-release branch whose payload, with or
\* without the leading guard, has a third response entry with a first row
\* that has a first dimension value stores that version - the string
\* itself or the value of its wrapper - for the platform of the phase and
\* sets that platform's flag; with fewer than three entries, or no rows in
\* the third, it changes nothing.
C30_DominantRelease ==
  [][\A h \in BagToSet(inflight) :
       (Complete(h) /\ h.branch = "dominant_release" /\ Body(h.r, report_days).json_ok) =>
         LET entries == Body(h.r, report_days).rows
             c == cl[h.app]
             d == cl'[h.app]
         IN IF Len(entries) < 3 \/ Len(entries[3].responseRows) = 0
            THEN d = c
            ELSE LET values == entries[3].responseRows[1].dimensionCompoundValues
                     version == IF values[1].wrapped THEN values[1].value ELSE values[1].bare
                 IN Len(values) > 0 =>
                      IF c.current_phase = "ios_dominant_release"
                      THEN /\ d.app_data.ios.dominant_release = version
                           /\ d.ios_dominant_release_captured
                      ELSE /\ d.app_data.android.dominant_release = version
                           /\ d.android_dominant_release_captured]_vars

\* The iOS release 7.0.1 was read from a payload that begins with the
\* guard and whose third entry carries it in a wrapper.
C30_Witness ==
  /\ drawn.family = "venus"
  /\ drawn.guard
  /\ Len(drawn.rows) >= 3
  /\ drawn.rows[3] = [responseRows |->
                        <<[dimensionCompoundValues |-> <<Wrapped("7.0.1"), Bare("6.0.0")>>],
                          [dimensionCompoundValues |-> <<Bare("6.5.0")>>]>>]
  /\ cur \in DOMAIN cl
  /\ cl[cur].app_data.ios.dominant_release = "7.0.1"
  /\ cl[cur].ios_dominant_release_captured

\* C31: every entry a handler appends to an issue list has as its impact
\* percentage the whole part of impacted devices x 100 / the install count
\* bound at the guard, 0 when that count is 0, and never a negative one.
C31_ImpactFloor ==
  [][\A h \in BagToSet(inflight) :
       (Complete(h) /\ h.branch = "top_issues") =>
         LET phase == cl[h.app].current_phase
             new == Appended(IssueList(cl[h.app], phase), IssueList(cl'[h.app], phase))
         IN \A j \in 1..Len(new) :
              /\ new[j].impact_percentage >= 0
              /\ new[j].impact_percentage =
                   IF h.total_installs = 0 THEN 0
                   ELSE (new[j].impacted_devices * 100) \div h.total_installs]_vars

\* C34: whenever the phase of an app is ios_crashes or ios_non_fatals its
\* ios_metrics_captured is true, and ios_nonfatal_issues_processed is
\* false in every state.
C34_IosMetricsBeforeLists ==
  \A a \in DOMAIN cl :
    /\ cl[a].current_phase \in {"ios_crashes", "ios_non_fatals"} => cl[a].ios_metrics_captured
    /\ ~cl[a].ios_nonfatal_issues_processed

\* In phase ios_non_fatals an issue list was stored although no iOS rate
\* was ever read: the ios_metrics wait ran out and forced the flag.
C34_Witness ==
  /\ cur \in DOMAIN cl
  /\ cl[cur].current_phase = "ios_non_fatals"
  /\ cl[cur].ios_metrics_captured
  /\ cl[cur].app_data.ios.crash_free_rates.fatal = Absent
  /\ cl[cur].app_data.ios.crash_free_rates.non_fatal = Absent
  /\ Len(cl[cur].app_data.ios.top_non_fatals) > 0

\* The days back for which the drawn APIs leave the probe without rows: none,
\* the first, or more than any look-back.
ProbeMisses == {0, 1, 30}

\* The APIs a run may draw: the probe of the days missed is empty, refused
\* or raises, and at most one endpoint group is not "ok" in the full query.
DrawnApis ==
  {[family |-> "api", probe |-> k, misses |-> n,
    full |-> [e \in Endpoints |-> IF e = g THEN a ELSE "ok"]] :
     k \in {"empty", "status", "raise"}, n \in ProbeMisses,
     g \in Endpoints, a \in {"ok", "empty", "status", "raise"}}

\* collect_app_data called once for an app that runs every phase, for
\* either window, with credentials in place and one of the drawn APIs
\* behind the fallback fetch.
InitApi ==
  /\ harness = "vitals"
  /\ drawn \in DrawnApis
  /\ fallback = Configured
  /\ browser = "Browser"
  /\ pc = "call"
  /\ idx = 2
  /\ report_days \in {7, 30}
  /\ DATE_RANGE_DAYS = report_days
  /\ elapsed = 0
  /\ seen = 0
  /\ last = NoResponse
  /\ cl = [a \in {} |-> NewClosure(a)]
  /\ inflight = EmptyBag
  /\ page_url = NoPage
  /\ apps = << >>

SpecApi == InitApi /\ [][NextApp]_vars

\* The field of the snapshot that holds a metric.
VitalsField(vitals_data, metric_name) ==
  CASE metric_name = "anrRate" -> vitals_data.anr_rate
    [] metric_name = "userPerceivedAnrRate" -> vitals_data.user_perceived_anr_rate
    [] metric_name = "crashRate" -> vitals_data.crash_rate
    [] metric_name = "userPerceivedCrashRate" -> vitals_data.user_perceived_crash_rate
    [] metric_name = "slowStartRate" -> vitals_data.slow_start_rate
    [] metric_name = "excessiveWakeupRate" -> vitals_data.excessive_wakeup_rate
    [] metric_name = "stuckBgWakelockRate" -> vitals_data.stuck_wakelock_rate
    [] OTHER -> vitals_data.user_perceived_lmk_rate

\* C33: unless the API simply has no rows for any day of the look-back, the
\* fallback fetch returns a snapshot whatever endpoint group fails (raises
\* or answers other than 200): every group is queried, the fields of the
\* groups that answered hold their metrics and the fields of the others
\* are None.
C33_GroupFailureSwallowed ==
  [][(pc = "fetch_vitals" /\ pc' = "returned" /\ drawn.family = "api") =>
       LET v == PlayVitals(report_days, drawn)
           nodata == /\ drawn.probe = "empty"
                     /\ drawn.misses >= vitals_window(report_days).lookback - 1
       IN ~nodata =>
            /\ v.returns = "snapshot"
            /\ cl'[cur].app_data.google_play_vitals = "snapshot"
            /\ v.queried = Endpoints
            /\ \A i \in 1..Len(metrics_list) :
                 VitalsField(v.vitals_data, metrics_list[i]) =
                   IF drawn.full[metric_to_endpoint(metrics_list[i])] = "ok"
                   THEN RoundHalfEven(DecimalValue(metrics_list[i]), 10)
                   ELSE None]_vars

C36_StoredUnderAcceptedPhase ==
  [][\A h \in BagToSet(inflight) :
       Complete(h) =>
         LET old == cl[h.app]
             new == cl'[h.app]
             r == Body(h.r, report_days)
         IN /\ (h.branch = "top_issues" /\ r.json_ok) =>
                 /\ \A q \in IssuePhases \ {h.phase} : IssueList(new, q) = IssueList(old, q)
                 /\ Appended(IssueList(old, h.phase), IssueList(new, h.phase))
                      = IssueData(r.rows, h.phase, h.total_installs)
            /\ (h.branch = "dominant_release" /\ h.phase = "ios_dominant_release") =>
                 new.app_data.android.dominant_release
                   = old.app_data.android.dominant_release]_vars

\* C37: the Android crash_free_rates and total_installs of an app are
\* assigned at most once: once its metrics are captured, no step changes
\* either of them, also when two metrics reports of the requested window
\* were in flight at once.
C37_AndroidMetricsOnce ==
  [][\A a \in DOMAIN cl :
       cl[a].metrics_captured =>
         /\ cl'[a].app_data.android.crash_free_rates = cl[a].app_data.android.crash_free_rates
         /\ cl'[a].app_data.android.total_installs = cl[a].app_data.android.total_installs]_vars

\* C38: the iOS crash-free rates are write-once per key: once the fatal
\* (non-fatal) rate of an app is stored, no step changes it or the matching
\* total_installs entry; the fatal rate is stored only while the phase is
\* ios_metrics or ios_crashes, the non-fatal rate only while it is
\* ios_metrics or ios_non_fatals.
C38_IosRatesWriteOnce ==
  [][\A a \in DOMAIN cl :
       LET old == cl[a].app_data.ios
           new == cl'[a].app_data.ios
       IN /\ old.crash_free_rates.fatal # Absent =>
               /\ new.crash_free_rates.fatal = old.crash_free_rates.fatal
               /\ new.total_installs.fatal = old.total_installs.fatal
          /\ old.crash_free_rates.non_fatal # Absent =>
               /\ new.crash_free_rates.non_fatal = old.crash_free_rates.non_fatal
               /\ new.total_installs.non_fatal = old.total_installs.non_fatal
          /\ new.crash_free_rates.fatal # old.crash_free_rates.fatal =>
               /\ cl[a].current_phase \in {"ios_metrics", "ios_crashes"}
               /\ cl'[a].current_phase = cl[a].current_phase
          /\ new.crash_free_rates.non_fatal # old.crash_free_rates.non_fatal =>
               /\ cl[a].current_phase \in {"ios_metrics", "ios_non_fatals"}
               /\ cl'[a].current_phase = cl[a].current_phase]_vars

\* Both iOS rates are stored and a later report with another FATAL install
\* count has been read since: the closure's count follows the later
\* report, the stored entry is the first one.
C38_Witness ==
  /\ cur \in DOMAIN cl
  /\ cl[cur].app_data.ios.crash_free_rates.fatal # Absent
  /\ cl[cur].app_data.ios.crash_free_rates.non_fatal # Absent
  /\ cl[cur].ios_fatal_installs # cl[cur].app_data.ios.total_installs.fatal

\* C39: an issue list is non-empty only if the metrics it is scaled by
\* were captured: android.top_crashes or top_non_fatals non-empty implies
\* metrics_captured, android.all_anrs non-empty implies
\* anr_metrics_captured, ios.top_crashes or ios.top_non_fatals non-empty
\* implies ios_metrics_captured.
C39_ListsNeedMetrics ==
  \A a \in DOMAIN cl :
    LET c == cl[a]
        d == c.app_data
    IN /\ (d.android.top_crashes # << >> \/ d.android.top_non_fatals # << >>)
            => c.metrics_captured
       /\ d.android.all_anrs # << >> => c.anr_metrics_captured
       /\ (d.ios.top_crashes # << >> \/ d.ios.top_non_fatals # << >>)
            => c.ios_metrics_captured

\* An app with iOS holds Android crash entries, ANR entries and iOS
\* non-fatal entries, each stored after its metrics were captured.
C39_Witness ==
  /\ cur \in DOMAIN cl
  /\ cl[cur].app_data.android.top_crashes # << >>
  /\ cl[cur].app_data.android.all_anrs # << >>
  /\ cl[cur].app_data.ios.top_non_fatals # << >>
  /\ cl[cur].metrics_captured
  /\ cl[cur].anr_metrics_captured
  /\ cl[cur].ios_metrics_captured

====
